---------------------------- MODULE Spec2Model ----------------------------
(***************************************************************************)
(* klaudio: the reconcilers that turn a ResourceGroup into                 *)
(* ResourceGroupDeployments (BundleFanout), a deployment into Resources in *)
(* dependency order (Planner) and a Resource into a backend object         *)
(* (Materializer), together with the expression engine and the dependency  *)
(* graph they rest on.                                                     *)
(*                                                                         *)
(* The specifications share the definitions below:                         *)
(*   SpecGraph   registration (NewResource) and Graph() as pure functions  *)
(*               of a bundle, a listing order and the map iteration order; *)
(*   Spec        one ResourceGroupDeployment driven by the Planner, its    *)
(*               Resources driven by the Materializer, the backend objects *)
(*               changing state on their own;                              *)
(*   SpecFanout  one ResourceGroup fanned out over the placements of the   *)
(*               ResourceRefs it references;                               *)
(*   SpecTofu    the OpenTofu provisioner run for the Resources of one     *)
(*               namespace, the Terraform objects changing on their own;   *)
(*   SpecExpr    Parse, Dependencies() and Evaluate applied to a scalar    *)
(*               and a scope;                                              *)
(*   SpecConflict  the Planner's update of a Resource's spec and the       *)
(*               Materializer's status updates of the same Resource, call  *)
(*               by call against the object store;                         *)
(*   SpecChain   Spec for a chain of three resources whose outputs change; *)
(*   SpecLive    Spec with backends that succeed, under fairness;          *)
(*   SpecFanoutQueue  SpecFanout with the group's work queue, under        *)
(*               fairness;                                                 *)
(*   SpecTree    the property tree of one resource read and evaluated;     *)
(*   SpecSelect  SelectByName applied to the provisioner of a ResourceRef; *)
(*   SpecProvision  the Pulumi and the Crossplane provisioner run for      *)
(*               Resources whose properties change.                        *)
(*                                                                         *)
(* Strings are atoms for TLC, so a scalar's text is a sequence of segments *)
(* (literal text or one ${...} token), a dotted name such as               *)
(* "resources.a" is the pair <<"resources", "a">>, and an evaluated string *)
(* is the sequence of its pieces.                                          *)
(***************************************************************************)
EXTENDS Integers, Sequences, FiniteSets, TLC

VARIABLES
    \* SpecGraph
    gBundle,      \* the declared resources: name -> properties (or Absent)
    gResult,      \* what registration + Graph() returned for gBundle
    \* Spec (Planner, Materializer, backend)
    bundle,       \* deployment.Spec.Resources: a sequence of entries
    store,        \* the Resource objects of the deployment: name -> object
    deployment,   \* the deployment's status: phase, conditions, resources
    backend,      \* the backend object of each Resource: state and outputs
    result,       \* the step just taken: who acted, how the pass ended, the requeue
    \* SpecFanout
    group,        \* the ResourceGroup: spec.resources, status
    refStore,     \* the ResourceRef objects: name -> Absent or status
    namespaces,   \* the namespaces in the store
    deployments,  \* the ResourceGroupDeployment objects in the store
    fanout,       \* what the last BundleFanout pass returned
    \* SpecTofu
    tofuResources, \* the Resources the provisioner is run for: name -> object
    tofuObjects,   \* the GitRepository and Terraform objects in the store
    tofuResult,    \* what the last Run returned
    \* SpecExpr
    exprScalar,    \* the scalar given to Parse
    exprScope,     \* the variables given to Evaluate
    exprResult,    \* the expression, its dependencies and its value
    \* SpecConflict
    apiResource,   \* the Resource in the object store, with its resourceVersion
    planner,       \* the Planner's position in its update, and its copy
    materializer,  \* the Materializer's position in its pass, and its copy
    lastWrite,     \* how the last write of each of the two ended
    \* SpecFanoutQueue
    queued         \* whether the group is in the work queue

graphVars  == <<gBundle, gResult>>
plannerVars == <<bundle, store, deployment, backend, result>>
fanoutVars == <<group, refStore, namespaces, deployments, fanout>>
tofuVars == <<tofuResources, tofuObjects, tofuResult>>
exprVars == <<exprScalar, exprScope, exprResult>>
conflictVars == <<apiResource, planner, materializer, lastWrite>>
vars == <<gBundle, gResult, bundle, store, deployment, backend, result,
          group, refStore, namespaces, deployments, fanout,
          tofuResources, tofuObjects, tofuResult,
          exprScalar, exprScope, exprResult,
          apiResource, planner, materializer, lastWrite, queued>>

-----------------------------------------------------------------------------
(* Helpers on sets and sequences                                           *)

Absent == [absent |-> TRUE]

Range(s) == {s[i] : i \in DOMAIN s}

\* all orders in which the elements of S can be visited (Go map iteration)
Perms(S) ==
    {p \in [1..Cardinality(S) -> S] : \A x \in S : \E i \in DOMAIN p : p[i] = x}

RECURSIVE Flatten(_)
Flatten(ss) == IF ss = <<>> THEN <<>> ELSE Head(ss) \o Flatten(Tail(ss))

\* byte-wise order of the strings the model compares
LexOrder == <<"", "a", "b", "c", "env", "refs", "resources">>

Rank(x) == CHOOSE i \in DOMAIN LexOrder : LexOrder[i] = x

\* a < b on dotted names "<root>.<name>" (and on the empty string, <<"", "">>)
NodeLess(x, y) ==
    \/ Rank(x[1]) < Rank(y[1])
    \/ x[1] = y[1] /\ Rank(x[2]) < Rank(y[2])

\* sets.String.List(): the elements of S in increasing order
RECURSIVE SortNodes(_)
SortNodes(S) ==
    IF S = {} THEN <<>>
    ELSE LET m == CHOOSE x \in S : \A y \in S \ {x} : NodeLess(x, y)
         IN  <<m>> \o SortNodes(S \ {m})

-----------------------------------------------------------------------------
(* Values (what json.Unmarshal into map[string]any and expr produce)       *)
(*   [s |-> pieces]  a string, as the sequence of its pieces               *)
(*   [num |-> n]     a number (a JSON number is a float64)                 *)
(*   [m |-> f]       a map, f a function from keys to values               *)
(*   [nil |-> TRUE]  nil                                                   *)
(*   [err |-> TRUE]  not a value: the evaluation failed                    *)

StrV(pieces) == [s |-> pieces]
NumV(n)      == [num |-> n]
MapV(f)      == [m |-> f]
NilV         == [nil |-> TRUE]
ErrV         == [err |-> TRUE]
EmptyMap     == [k \in {} |-> NilV]

IsStr(v) == "s" \in DOMAIN v
IsNum(v) == "num" \in DOMAIN v
IsMap(v) == "m" \in DOMAIN v
IsErr(v) == "err" \in DOMAIN v

\* expr's runtime.Fetch: a missing key of a map is nil, a member of nil or
\* of a string is a runtime error
Fetch(v, k) ==
    IF IsMap(v)
    THEN IF k \in DOMAIN v.m THEN v.m[k] ELSE NilV
    ELSE ErrV

RECURSIVE FetchPath(_, _)
FetchPath(v, path) ==
    IF path = <<>> THEN v
    ELSE LET w == Fetch(v, Head(path))
         IN  IF IsErr(w) THEN ErrV ELSE FetchPath(w, Tail(path))

\* fmt.Sprintf("%s", v) of a value, as pieces: the verb %s prints a string as
\* it is and anything that is no string as %!s(<type>=<value>)
Stringify(v) ==
    IF IsStr(v) THEN v.s
    ELSE IF IsNum(v) THEN <<"%!s(float64=", ToString(v.num), ")">>
    ELSE IF IsMap(v) THEN <<"map[...]">>
    ELSE <<"%!s(<nil>)">>

-----------------------------------------------------------------------------
(* Scalars and expressions                                                 *)
(* A scalar that is no string is [typed |-> value].                        *)
(* A string scalar is [segs |-> <<segment, ...>>]; a segment is            *)
(*   [lit |-> text]                literal text without "${"               *)
(*   [tok |-> <<operand, ...>>]    a ${...} token: its operands joined by  *)
(*                                 " + "                                   *)
(* An operand is [root, name, path]: <root>.<name>.<path...>, or           *)
(* [const |-> text]: a quoted constant.                                    *)

Lit(text)          == [lit |-> text]
Tok(operands)      == [tok |-> operands]
Ref(root, name, p) == [root |-> root, name |-> name, path |-> p]
Const(text)        == [const |-> text]
Scalar(segs)       == [segs |-> segs]
Typed(value)       == [typed |-> value]

IsTok(seg)     == "tok" \in DOMAIN seg
IsString(scalar) == "segs" \in DOMAIN scalar
IsConst(opnd)  == "const" \in DOMAIN opnd

\* exprExpressionRe.FindAllStringSubmatch: the inner text of every token, in order
SearchExpressions(scalar) ==
    LET toks == SelectSeq(scalar.segs, IsTok)
    IN  [i \in DOMAIN toks |-> toks[i].tok]

\* strings.HasPrefix(expression, StartToken)
HasStartTokenPrefix(scalar) == scalar.segs # <<>> /\ IsTok(Head(scalar.segs))

\* NewExprExpression: the inner text of the first token of the source
NewExprExpression(scalar) ==
    [kind |-> "expr", source |-> SearchExpressions(scalar)[1]]

newCompositeExpression(scalar, expressions) ==
    [kind |-> "composite", source |-> scalar.segs,
     expressions |-> [i \in DOMAIN expressions |->
                         [kind |-> "expr", source |-> expressions[i]]]]

SimpleExpression(scalar) == [kind |-> "simple", source |-> scalar.segs]

\* Parse: a scalar that is no string becomes the simple expression of its
\* fmt.Sprintf("%s", ...) text
ParseString(scalar) ==
    LET expressions == SearchExpressions(scalar)
    IN  IF Len(expressions) = 0 THEN SimpleExpression(scalar)
        ELSE IF Len(expressions) = 1 /\ HasStartTokenPrefix(scalar)
             THEN NewExprExpression(scalar)
             ELSE newCompositeExpression(scalar, expressions)

Parse(scalar) ==
    IF IsString(scalar) THEN ParseString(scalar)
    ELSE LET text == Stringify(scalar.typed)
         IN  SimpleExpression(Scalar([i \in DOMAIN text |-> Lit(text[i])]))

\* the dotted components of an operand's text
Components(opnd) ==
    IF IsConst(opnd) THEN <<>> ELSE <<opnd.root, opnd.name>> \o opnd.path

\* the regular expression (<root>\.[^.]+)\. on one operand: the leftmost
\* component <root> that has a component and a dot after it, wherever in the
\* dotted text it stands, as <<root, name>>
MatchIn(opnd, root) ==
    LET c == Components(opnd)
        at == {i \in 1..(Len(c) - 2) : c[i] = root}
    IN  IF at = {} THEN <<>>
        ELSE << <<root, c[(CHOOSE i \in at : \A j \in at : i <= j) + 1]>> >>

\* FindStringSubmatch on the source of a token returns the leftmost match only
FirstMatch(operands, root) ==
    LET hits == Flatten([i \in DOMAIN operands |-> MatchIn(operands[i], root)])
    IN  IF hits = <<>> THEN <<>> ELSE <<hits[1]>>

ExprDependencies(operands) ==
    FirstMatch(operands, "resources") \o FirstMatch(operands, "refs")

\* make([]string, len(e.expressions)) followed by append: the slice starts
\* with one empty string per sub-expression
CompositeDependencies(e) ==
    [i \in DOMAIN e.expressions |-> <<"", "">>]
        \o Flatten([i \in DOMAIN e.expressions |->
                       ExprDependencies(e.expressions[i].source)])

Dependencies(e) ==
    IF e.kind = "simple" THEN <<>>
    ELSE IF e.kind = "expr" THEN ExprDependencies(e.source)
    ELSE CompositeDependencies(e)

\* one operand against the variables: expr.Compile(source, expr.Env(allArgs))
\* rejects a root that is no key of allArgs, expr.Run fetches the members
OperandValue(opnd, variables) ==
    IF IsConst(opnd) THEN StrV(<<opnd.const>>)
    ELSE IF opnd.root \notin DOMAIN variables THEN ErrV
    ELSE FetchPath(MapV(variables), <<opnd.root, opnd.name>> \o opnd.path)

\* "+" of expr: defined on two strings and on two numbers, an error otherwise
RECURSIVE PlusAll(_)
PlusAll(values) ==
    IF Len(values) = 1 THEN Head(values)
    ELSE LET rest == PlusAll(Tail(values))
         IN  IF IsStr(Head(values)) /\ IsStr(rest)
             THEN StrV(Head(values).s \o rest.s)
             ELSE IF IsNum(Head(values)) /\ IsNum(rest)
             THEN NumV(Head(values).num + rest.num)
             ELSE ErrV

ExprEvaluate(operands, variables) ==
    PlusAll([i \in DOMAIN operands |-> OperandValue(operands[i], variables)])

\* a text that reads as a token: "${'hello'}"
HelloToken == "${'hello'}"

\* a piece of text as a segment, and back
ReadPiece(piece) ==
    IF piece = HelloToken THEN Tok(<<Const("hello")>>) ELSE Lit(piece)
TextOf(seg) ==
    IF IsTok(seg) THEN HelloToken ELSE seg.lit

\* strings.Replace(s, "${" + source + "}", text, -1): every occurrence of the
\* fragment in s replaced, the text put in is not scanned again by this call
ReplaceAll(s, source, text) ==
    Flatten([i \in DOMAIN s |->
        IF s[i] = Tok(source)
        THEN [j \in DOMAIN text |-> ReadPiece(text[j])]
        ELSE <<s[i]>>])

\* the loop of CompositeExpression.Evaluate: one Replace per sub-expression,
\* each on the text the Replace before it left
RECURSIVE ReplaceLoop(_, _, _)
ReplaceLoop(s, expressions, variables) ==
    IF expressions = <<>> THEN StrV([i \in DOMAIN s |-> TextOf(s[i])])
    ELSE LET r == ExprEvaluate(Head(expressions).source, variables)
         IN  IF IsErr(r) THEN ErrV
             ELSE ReplaceLoop(ReplaceAll(s, Head(expressions).source, Stringify(r)),
                              Tail(expressions), variables)

CompositeEvaluate(e, variables) == ReplaceLoop(e.source, e.expressions, variables)

Evaluate(e, variables) ==
    IF e.kind = "simple"
    THEN StrV(Flatten([i \in DOMAIN e.source |-> <<e.source[i].lit>>]))
    ELSE IF e.kind = "expr" THEN ExprEvaluate(e.source, variables)
    ELSE CompositeEvaluate(e, variables)

-----------------------------------------------------------------------------
(* The dependency graph (github.com/dominikbraun/graph as Graph() uses it: *)
(* a directed graph with PreventCycles, AddVertex, AddEdge and             *)
(* StableTopologicalSort)                                                  *)

GraphErr    == [err |-> TRUE]
GraphOk(x)  == [err |-> FALSE, val |-> x]

\* vertexNameFn: fmt.Sprintf("resources.%s", name)
vertexNameFn(name) == <<"resources", name>>

\* the vertices from which some vertex of S is reached
RECURSIVE PredecessorClosure(_, _)
PredecessorClosure(g, S) ==
    LET S2 == S \cup {e[1] : e \in {e \in g.E : e[2] \in S}}
    IN  IF S2 = S THEN S ELSE PredecessorClosure(g, S2)

\* graph.CreatesCycle: the target is the source or one of its ancestors
CreatesCycle(g, source, target) ==
    source = target \/ target \in PredecessorClosure(g, {source})

\* AddEdge under PreventCycles: both ends must be vertices, the edge new,
\* and it must close no cycle
AddEdge(g, source, target) ==
    IF source \notin g.V \/ target \notin g.V THEN GraphErr
    ELSE IF <<source, target>> \in g.E THEN GraphErr
    ELSE IF CreatesCycle(g, source, target) THEN GraphErr
    ELSE GraphOk([g EXCEPT !.E = @ \cup {<<source, target>>}])

\* the less function Graph() hands to the sort: a < b on vertex names
GraphLessReversed(a, b) == NodeLess(b, a)
GraphLess(a, b) == NodeLess(a, b)

\* sort.Slice(S, less)
RECURSIVE SortVertices(_)
SortVertices(S) ==
    IF S = {} THEN <<>>
    ELSE LET m == CHOOSE x \in S : \A y \in S \ {x} : GraphLess(x, y)
         IN  <<m>> \o SortVertices(S \ {m})

RECURSIVE TopologicalLoop(_, _, _, _)
TopologicalLoop(queue, order, visited, preds) ==
    IF queue = <<>> THEN order
    ELSE LET currentVertex == Head(queue)
         IN  IF currentVertex \in visited
             THEN TopologicalLoop(Tail(queue), order, visited, preds)
             ELSE LET preds2   == [v \in DOMAIN preds |-> preds[v] \ {currentVertex}]
                      visited2 == visited \cup {currentVertex}
                      frontier == SortVertices({v \in DOMAIN preds2 :
                                      preds2[v] = {} /\ v \notin visited2})
                  IN  TopologicalLoop(Tail(queue) \o frontier,
                                      Append(order, currentVertex), visited2, preds2)

\* graph.StableTopologicalSort(g, less): Kahn's algorithm over a queue; the
\* vertices without predecessors and each frontier are sorted by less
StableTopologicalSort(g) ==
    LET predecessorMap == [v \in g.V |-> {e[1] : e \in {e \in g.E : e[2] = v}}]
        queue == SortVertices({v \in g.V : predecessorMap[v] = {}})
        order == TopologicalLoop(queue, <<>>, {}, predecessorMap)
    IN  IF Len(order) # Cardinality(g.V) THEN GraphErr ELSE GraphOk(order)

-----------------------------------------------------------------------------
(* Package resources: registration, Graph(), evaluation                    *)

\* readProperty, the scalar case: the parsed expression and its dependencies
readProperty(name, value) ==
    LET e == Parse(value)
    IN  [name |-> name, expression |-> e, dependencies |-> Dependencies(e)]

\* newResourceProperties: every property read, and the sorted set
\* (sets.String.List()) of their dependencies
newResourceProperties(properties) ==
    LET read == [k \in DOMAIN properties |-> readProperty(k, properties[k])]
    IN  [properties   |-> read,
         dependencies |-> SortNodes(UNION {Range(read[k].dependencies) :
                                               k \in DOMAIN read})]

NewResourceGroup == [all |-> [n \in {} |-> Absent]]

\* ResourceGroup.NewResource: an error when the name is registered already
NewResourceOverwriting(rg, name, properties) ==
    LET p == newResourceProperties(properties)
        resource == [Name |-> name, properties |-> p.properties,
                     dependencies |-> p.dependencies]
    IN  GraphOk([rg EXCEPT !.all =
            [n \in DOMAIN rg.all \cup {name} |->
                IF n = name THEN resource ELSE rg.all[n]]])
NewResource(rg, name, properties) ==
    IF name \in DOMAIN rg.all THEN GraphErr
    ELSE LET p == newResourceProperties(properties)
             resource == [Name |-> name, properties |-> p.properties,
                          dependencies |-> p.dependencies]
         IN  GraphOk([rg EXCEPT !.all =
                 [n \in DOMAIN rg.all \cup {name} |->
                     IF n = name THEN resource ELSE rg.all[n]]])

\* step 2 of the Planner: the entries of spec.resources registered in order,
\* stopping at the first error
RECURSIVE RegisterAll(_, _)
RegisterAll(rg, entries) ==
    IF entries = <<>> THEN GraphOk(rg)
    ELSE LET r == NewResource(rg, Head(entries).name, Head(entries).properties)
         IN  IF r.err THEN GraphErr ELSE RegisterAll(r.val, Tail(entries))

RECURSIVE AddEdges(_, _)
AddEdges(g, edges) ==
    IF edges = <<>> THEN GraphOk(g)
    ELSE LET r == AddEdge(g, Head(edges)[1], Head(edges)[2])
         IN  IF r.err THEN GraphErr ELSE AddEdges(r.val, Tail(edges))

\* the AddEdge calls of Graph() when r.all is ranged over in the order iter
EdgeCalls(rg, iter) ==
    Flatten([i \in DOMAIN iter |->
        [j \in DOMAIN rg.all[iter[i]].dependencies |->
            <<rg.all[iter[i]].dependencies[j], vertexNameFn(iter[i])>>]])

\* ResourceGroup.Graph(): one vertex per registered resource, one edge per
\* dependency (an error from AddEdge is returned), then the stable sort
Graph(rg, iter) ==
    LET g0 == [V |-> {vertexNameFn(n) : n \in DOMAIN rg.all}, E |-> {}]
        g  == AddEdges(g0, EdgeCalls(rg, iter))
    IN  IF g.err THEN GraphErr ELSE StableTopologicalSort(g.val)

\* ResourceGroup.Get: "resources.<name>" or "<name>" to the registered name
ResourceGroupGet(rg, vertex) == rg.all[vertex[2]]

-----------------------------------------------------------------------------
(* Inputs: the scalars and property maps a bundle is built from            *)

OutputsPath    == <<"status", "outputs", "id">>
PropertiesPath == <<"spec", "properties", "n">>

\* "v"
LiteralScalar == Scalar(<<Lit("v")>>)
\* "${resources.<x>.status.outputs.id}"
OutputOf(x) == Scalar(<<Tok(<<Ref("resources", x, OutputsPath)>>)>>)
\* "${resources.<x>.spec.properties.n}"
PropertyOf(x) == Scalar(<<Tok(<<Ref("resources", x, PropertiesPath)>>)>>)
\* "${resources.<x>.status.outputs.id + resources.<y>.status.outputs.id}"
SumOf(x, y) == Scalar(<<Tok(<<Ref("resources", x, OutputsPath),
                             Ref("resources", y, OutputsPath)>>)>>)
\* "${refs.env.data.name}"
RefScalar == Scalar(<<Tok(<<Ref("refs", "env", <<"data", "name">>)>>)>>)
\* "x-${resources.<x>.status.outputs.id}"
CompositeOf(x) == Scalar(<<Lit("x-"), Tok(<<Ref("resources", x, OutputsPath)>>)>>)

NoProperties == [k \in {} |-> LiteralScalar]
OneProperty(scalar) == [k \in {"n"} |-> scalar]
TwoProperties(s1, s2) == [k \in {"m", "n"} |-> IF k = "n" THEN s1 ELSE s2]

\* the resources a scalar refers to, whatever Dependencies() makes of them
ScalarReferences(scalar) ==
    UNION {{o.name : o \in {o \in Range(seg.tok) : ~IsConst(o) /\ o.root = "resources"}} :
              seg \in {seg \in Range(scalar.segs) : IsTok(seg)}}

References(properties) ==
    UNION {ScalarReferences(properties[k]) : k \in DOMAIN properties}

\* whether a scalar is a literal or exactly one ${resources.X.path} token
IsPlainScalar(scalar) ==
    \/ \A i \in DOMAIN scalar.segs : ~IsTok(scalar.segs[i])
    \/ /\ Len(scalar.segs) = 1
       /\ IsTok(scalar.segs[1])
       /\ Len(scalar.segs[1].tok) = 1
       /\ ~IsConst(scalar.segs[1].tok[1])
       /\ scalar.segs[1].tok[1].root = "resources"

-----------------------------------------------------------------------------
(* SpecGraph: registration and Graph() applied to a bundle                 *)

GraphNames == {"a", "b", "c"}

GraphProperties ==
    {NoProperties, OneProperty(RefScalar)}
        \cup {OneProperty(OutputOf(x)) : x \in GraphNames}
        \cup {OneProperty(CompositeOf(x)) : x \in GraphNames}
        \cup {OneProperty(SumOf(p[1], p[2])) :
                  p \in {p \in GraphNames \X GraphNames : p[1] # p[2]}}
        \cup {TwoProperties(OutputOf(p[1]), OutputOf(p[2])) :
                  p \in {p \in GraphNames \X GraphNames : Rank(p[1]) < Rank(p[2])}}

GraphBundles ==
    UNION {[S -> GraphProperties] : S \in SUBSET GraphNames \ {{}}}

\* spec.resources listed in the given order
Listed(b, listing) ==
    [i \in DOMAIN listing |->
        [name |-> listing[i], properties |-> b[listing[i]]]]

\* registration of the listed entries, then Graph() under the iteration order
GraphOf(entries, iter) ==
    LET r == RegisterAll(NewResourceGroup, entries)
    IN  IF r.err THEN GraphErr ELSE Graph(r.val, iter)

NoGraph == [none |-> TRUE]

\* the variables of the other specifications are left alone
InitGraph ==
    /\ gBundle \in GraphBundles
    /\ gResult = NoGraph
    /\ bundle = <<>> /\ store = <<>> /\ deployment = <<>> /\ backend = <<>>
    /\ result = <<>>
    /\ group = <<>> /\ refStore = <<>> /\ namespaces = {} /\ deployments = {}
    /\ fanout = <<>>
    /\ tofuResources = <<>> /\ tofuObjects = {} /\ tofuResult = <<>>
    /\ exprScalar = <<>> /\ exprScope = <<>> /\ exprResult = <<>>
    /\ apiResource = <<>> /\ planner = <<>> /\ materializer = <<>>
    /\ lastWrite = <<>> /\ queued = FALSE

RunGraph ==
    /\ gResult = NoGraph
    /\ \E listing \in Perms(DOMAIN gBundle), iter \in Perms(DOMAIN gBundle) :
           gResult' = GraphOf(Listed(gBundle, listing), iter)
    /\ UNCHANGED gBundle

NextGraph == RunGraph /\ UNCHANGED <<plannerVars, fanoutVars, tofuVars, exprVars, conflictVars, queued>>

SpecGraph == InitGraph /\ [][NextGraph]_vars

-----------------------------------------------------------------------------
(* The Planner's evaluation scope (package resources)                      *)

\* phases (api/v1alpha1): the Planner compares a Resource's phase with these
\* shared constants; the Resource controller writes the same three phases
\* (in progress, done, failed), which the model spells the same way
DeploymentInProgressPhase == "DeploymentInProgress"
DeploymentDonePhase       == "DeploymentDone"
DeploymentFailedPhase     == "DeploymentFailed"
NoPhase                   == ""

\* StatusPhaseToReason: the condition reason of a phase
StatusPhaseToReason(phase) ==
    CASE phase = DeploymentInProgressPhase -> "DeploymentInProgress"
      [] phase = DeploymentDonePhase       -> "DeploymentDone"
      [] phase = DeploymentFailedPhase     -> "DeploymentFailed"
      [] OTHER                             -> phase

\* the referenced objects of spec.refs as found in the store
RefObjects ==
    [r \in {"env"} |-> MapV([k \in {"data"} |->
                          MapV([j \in {"name"} |-> StrV(<<"world">>)])])]

\* NewResourcePropertiesArgs: the roots "parameters" and "refs"; the root
\* "resources" is not set here
NewResourcePropertiesArgsWithResources(parameters, references) ==
    [k \in {"parameters", "refs", "resources"} |->
        CASE k = "parameters" -> MapV(parameters)
          [] k = "refs"       -> MapV(references)
          [] OTHER            -> MapV(EmptyMap)]
NewResourcePropertiesArgs(parameters, references) ==
    [k \in {"parameters", "refs"} |->
        IF k = "parameters" THEN MapV(parameters) ELSE MapV(references)]

\* json.Marshal of a Resource followed by json.Unmarshal into a map: the keys
\* are the json tags; status.phase and status.outputs are omitempty, the
\* provisioner struct is always written (status.conditions, a list, is read
\* by no expression of the model and is left out)
ResourceAsMap(name, resource) ==
    LET statusKeys == {"provisioner"}
                        \cup (IF resource.phase = NoPhase THEN {} ELSE {"phase"})
                        \cup (IF resource.outputs = NilV THEN {} ELSE {"outputs"})
        status == [k \in statusKeys |->
                     CASE k = "phase"   -> StrV(<<resource.phase>>)
                       [] k = "outputs" -> resource.outputs
                       [] OTHER         -> MapV(EmptyMap)]
        spec == [k \in {"properties"} |-> resource.properties]
        metadata == [k \in {"name"} |-> StrV(<<name>>)]
    IN  [k \in {"metadata", "spec", "status"} |->
            CASE k = "metadata" -> MapV(metadata)
              [] k = "spec"     -> MapV(spec)
              [] OTHER          -> MapV(status)]

\* the replacement WithResource makes when the key is there
ReplaceIn(asMap, outer, inner, value) ==
    IF outer \in DOMAIN asMap /\ IsMap(asMap[outer]) /\ inner \in DOMAIN asMap[outer].m
    THEN [asMap EXCEPT ![outer] =
             MapV([k \in DOMAIN asMap[outer].m |->
                      IF k = inner THEN value ELSE asMap[outer].m[k]])]
    ELSE asMap

\* ResourcePropertiesArgs.WithResource: the Resource as a map under
\* resources.<name>; the keys it looks up to replace the properties and the
\* outputs are "Spec"/"Properties" and "Status"/"Outputs"
WithResourceOutputsAsProperties(args, name, resource) ==
    LET resources == IF "resources" \in DOMAIN args THEN args["resources"].m ELSE EmptyMap
        asMap == ResourceAsMap(name, [resource EXCEPT !.outputs =
                     IF @ = NilV THEN @ ELSE resource.properties])
    IN  [k \in DOMAIN args \cup {"resources"} |->
            IF k = "resources"
            THEN MapV([n \in DOMAIN resources \cup {name} |->
                          IF n = name THEN MapV(asMap) ELSE resources[n]])
            ELSE args[k]]
WithResource(args, name, resource) ==
    LET resources == IF "resources" \in DOMAIN args THEN args["resources"].m ELSE EmptyMap
        asMap0 == ResourceAsMap(name, resource)
        asMap1 == ReplaceIn(asMap0, "Spec", "Properties", resource.properties)
        asMap2 == IF resource.outputs # NilV
                  THEN ReplaceIn(asMap1, "Status", "Outputs", resource.outputs)
                  ELSE asMap1
    IN  [k \in DOMAIN args \cup {"resources"} |->
            IF k = "resources"
            THEN MapV([n \in DOMAIN resources \cup {name} |->
                          IF n = name THEN MapV(asMap2) ELSE resources[n]])
            ELSE args[k]]

\* Resource.Evaluate: every property evaluated; an error of one is the error
\* of all
ResourceEvaluate(resource, args) ==
    LET expanded == [k \in DOMAIN resource.properties |->
                        Evaluate(resource.properties[k].expression, args)]
    IN  IF \E k \in DOMAIN expanded : IsErr(expanded[k]) THEN ErrV
        ELSE MapV(expanded)

-----------------------------------------------------------------------------
(* The Planner (ResourceGroupDeploymentReconciler.Reconcile), one pass     *)

\* the ResourceRef catalog: name to provisioner name
ResourceRefs ==
    [r \in {"bucket", "queue"} |-> IF r = "bucket" THEN "pulumi" ELSE "opentofu"]

\* a condition list as a function from condition type to status and reason
NoConditions == [t \in {} |-> [status |-> "", reason |-> ""]]

\* meta.SetStatusCondition: the condition of that type added or replaced
SetStatusCondition(conditions, type, status, reason) ==
    [t \in DOMAIN conditions \cup {type} |->
        IF t = type THEN [status |-> status, reason |-> reason]
        ELSE conditions[t]]

\* the seed of the first pass: phase in progress, condition Initializing
SeedDeployment(d) ==
    IF d.conditions = NoConditions
    THEN [d EXCEPT !.phase = DeploymentInProgressPhase,
                   !.conditions = SetStatusCondition(@, "Initializing",
                                                     "Unknown", "Reconciling")]
    ELSE d

\* step 2: every entry's ResourceRef fetched, then the entry registered
RECURSIVE RegisterCandidates(_, _)
RegisterCandidates(rg, candidates) ==
    IF candidates = <<>> THEN GraphOk(rg)
    ELSE IF Head(candidates).resourceRef \notin DOMAIN ResourceRefs THEN GraphErr
    ELSE LET name == Head(candidates).name
             r == NewResource(rg, name, Head(candidates).properties)
         IN  IF r.err THEN GraphErr
             ELSE RegisterCandidates(
                      [all |-> [n \in DOMAIN r.val.all |->
                          IF n = name
                          THEN [Name |-> name,
                                properties |-> r.val.all[n].properties,
                                dependencies |-> r.val.all[n].dependencies,
                                Ref |-> Head(candidates).resourceRef]
                          ELSE r.val.all[n]]],
                      Tail(candidates))

\* no condition of type Ready yet
NoReady == [status |-> "", reason |-> ""]

\* the Resource object the Planner creates: spec only, the status is empty
NewResourceObject(resourceRef, properties) ==
    [resourceRef |-> resourceRef, properties |-> properties,
     phase |-> NoPhase, ready |-> NoReady, outputs |-> NilV]

\* the one test of the walk on the Resource it has just updated
MustWait(resource) == resource.phase = DeploymentInProgressPhase

RECURSIVE WalkOnAfterCreate(_, _, _, _, _, _)
WalkOnAfterCreate(dag, rg, st, args, know, createFails) ==
    IF dag = <<>> THEN [end |-> "created", store |-> st, know |-> know]
    ELSE
      LET resource == ResourceGroupGet(rg, Head(dag))
          name == resource.Name
          expandedProperties == ResourceEvaluate(resource, args)
      IN  IF IsErr(expandedProperties)
          THEN [end |-> "evaluateError", store |-> st, know |-> know]
          ELSE
            LET resourceToDeploy ==
                  IF st[name] = Absent
                  THEN NewResourceObject(resource.Ref, expandedProperties)
                  ELSE [st[name] EXCEPT !.properties = expandedProperties]
                st2 == [st EXCEPT ![name] = resourceToDeploy]
            IN  IF MustWait(resourceToDeploy)
                THEN [end |-> "waiting", store |-> st2, know |-> know]
                ELSE WalkOnAfterCreate(Tail(dag), rg, st2,
                          WithResource(args, name, resourceToDeploy),
                          know, createFails)

\* step 4: the walk over the order Graph() returned.  st is the store, know
\* the statuses collected so far.  The walk ends at the first evaluation
\* error, at the first Resource it creates (or fails to create), at the
\* first Resource that is in progress, or after the last vertex.
RECURSIVE Walk(_, _, _, _, _, _)
Walk(dag, rg, st, args, know, createFails) ==
    IF dag = <<>> THEN [end |-> "walked", store |-> st, know |-> know]
    ELSE
      LET resource == ResourceGroupGet(rg, Head(dag))
          name == resource.Name
          expandedProperties == ResourceEvaluate(resource, args)
      IN  IF IsErr(expandedProperties)
          THEN [end |-> "evaluateError", store |-> st, know |-> know]
          ELSE IF st[name] = Absent
          THEN IF createFails
               THEN [end |-> "createError", store |-> st, know |-> know]
               ELSE [end |-> "created", know |-> know,
                     store |-> [st EXCEPT ![name] =
                         NewResourceObject(resource.Ref, expandedProperties)]]
          ELSE
            LET resourceToDeploy == [st[name] EXCEPT !.properties = expandedProperties]
                st2 == [st EXCEPT ![name] = resourceToDeploy]
            IN  IF MustWait(resourceToDeploy)
                THEN [end |-> "waiting", store |-> st2, know |-> know]
                ELSE Walk(Tail(dag), rg, st2,
                          WithResource(args, name, resourceToDeploy),
                          [n \in DOMAIN know \cup {name} |->
                              IF n = name THEN resourceToDeploy.phase ELSE know[n]],
                          createFails)

\* the aggregate of the collected statuses, ranged over in the order iter:
\* Done unless the loop meets a Failed or an in-progress status, at which it
\* stops
RECURSIVE AggregateIgnoringFailed(_, _)
AggregateIgnoringFailed(know, iter) ==
    IF iter = <<>> THEN DeploymentDonePhase
    ELSE IF know[Head(iter)] = DeploymentInProgressPhase THEN DeploymentInProgressPhase
    ELSE AggregateIgnoringFailed(know, Tail(iter))

RECURSIVE Aggregate(_, _)
Aggregate(know, iter) ==
    IF iter = <<>> THEN DeploymentDonePhase
    ELSE IF know[Head(iter)] = DeploymentFailedPhase THEN DeploymentFailedPhase
    ELSE IF know[Head(iter)] = DeploymentInProgressPhase THEN DeploymentInProgressPhase
    ELSE Aggregate(know, Tail(iter))

\* the condition type that goes with the aggregate
ConditionTypeOf(phase) ==
    CASE phase = DeploymentFailedPhase     -> "Failed"
      [] phase = DeploymentInProgressPhase -> "InProgress"
      [] OTHER                             -> "Ready"

\* every phase the aggregate can come to, over the iteration orders of the map
AggregatePhases(know) == {Aggregate(know, iter) : iter \in Perms(DOMAIN know)}

\* the names the model's bundles are made of, and the longest bundle
PlannerNames == {"a", "b"}
MaxResources == 2

PlannerProperties ==
    {OneProperty(LiteralScalar), OneProperty(RefScalar)}
        \cup {OneProperty(OutputOf(x)) : x \in PlannerNames}
        \cup {OneProperty(PropertyOf(x)) : x \in PlannerNames}
        \cup {OneProperty(SumOf(p[1], p[2])) :
                  p \in {p \in PlannerNames \X PlannerNames : p[1] # p[2]}}

\* spec.resources of the deployment: name, resourceRef and properties
Candidates ==
    [name : PlannerNames, resourceRef : DOMAIN ResourceRefs,
     properties : PlannerProperties]

\* the bundles of the model list their entries by name (Graph() does not
\* depend on the listing order), a name may come twice
Bundles ==
    {b \in UNION {[1..n -> Candidates] : n \in 1..MaxResources} :
        \A i \in 1..(Len(b) - 1) : Rank(b[i].name) <= Rank(b[i + 1].name)}

NoStatuses == [n \in {} |-> NoPhase]

\* how a pass ends, and what the result asks of the work queue
RequeueOf(end) ==
    CASE end \in {"registerError", "graphError", "evaluateError", "createError"} -> "error"
      [] end \in {"created", "waiting", "walkedInProgress"} -> "after5s"
      [] OTHER -> "none"

\* the deployment status a pass leaves, from the seeded status d, the end of
\* the walk, the collected statuses and the aggregate phase
DeploymentAfter(d, end, know, phase) ==
    CASE end = "created" ->
            [d EXCEPT !.conditions = SetStatusCondition(@, "InProgress", "True",
                                         "DeploymentInProgress")]
      [] end = "createError" ->
            [d EXCEPT !.conditions = SetStatusCondition(@, "Failed", "False", "Failed")]
      [] end = "walked" ->
            [d EXCEPT !.resources = know,
                      !.phase = phase,
                      !.conditions = SetStatusCondition(@, ConditionTypeOf(phase),
                                         "True", StatusPhaseToReason(phase))]
      [] OTHER -> d

\* the end of a pass that stops before the walk: the seeded status stays in
\* memory, the error goes back to the work queue
PlannerStops(seeded, end) ==
    /\ deployment' = seeded
    /\ result' = [by |-> "planner", end |-> end, requeue |-> RequeueOf(end)]
    /\ UNCHANGED <<bundle, store, backend>>

\* the writes of a pass whose walk ended as w
PlannerWrites(seeded, w) ==
    \E phase \in AggregatePhases(w.know) :
      /\ store' = w.store
      /\ deployment' = DeploymentAfter(seeded, w.end, w.know, phase)
      /\ result' = [by |-> "planner", end |-> w.end,
                    requeue |-> IF w.end = "walked" /\ phase # DeploymentDonePhase
                                THEN "after5s" ELSE RequeueOf(w.end)]
      /\ UNCHANGED <<bundle, backend>>

\* the pass from the sorted graph on.  createFails: r.Create of the Resource
\* returns an error (it has an effect only in a pass that comes to create one)
PlannerDrives(seeded, rg, dag) ==
    IF dag.err
    THEN PlannerStops(seeded, "graphError")
    ELSE \E createFails \in BOOLEAN :
           PlannerWrites(seeded,
               Walk(dag.val, rg, store, NewResourcePropertiesArgs(EmptyMap, RefObjects),
                    NoStatuses, createFails))

\* the pass from the registered candidates on
PlannerRegistered(seeded, registered) ==
    IF registered.err
    THEN PlannerStops(seeded, "registerError")
    ELSE \E iter \in Perms(DOMAIN registered.val.all) :
           PlannerDrives(seeded, registered.val, Graph(registered.val, iter))

\* one pass of the Planner
PlannerPass ==
    PlannerRegistered(SeedDeployment(deployment),
                      RegisterCandidates(NewResourceGroup, bundle))

-----------------------------------------------------------------------------
(* The Materializer (ResourceReconciler.Reconcile) and the Pulumi stacks   *)

Outputs1 == MapV([k \in {"id"} |-> StrV(<<"id1">>)])

\* what a Stack can report: no lastUpdate yet, or a last update that
\* succeeded or failed, with status.outputs there or not
StackStates ==
    {[state |-> "", outputs |-> NilV],
     [state |-> "succeeded", outputs |-> Outputs1],
     [state |-> "failed", outputs |-> NilV],
     [state |-> "failed", outputs |-> Outputs1]}

\* runPulumiProvisioner: the Stack created when there is none, then its
\* lastUpdate.state read; stackStatus["outputs"].(map[string]any) panics
\* when a succeeded or failed Stack has no outputs
ProvisionerStatusOf(stack) ==
    IF stack.state \in {"succeeded", "failed"}
    THEN IF IsMap(stack.outputs)
         THEN [State |-> IF stack.state = "succeeded" THEN "Success" ELSE "Failed",
               Outputs |-> stack.outputs]
         ELSE [State |-> "panic", Outputs |-> NilV]
    ELSE [State |-> "Running", Outputs |-> MapV(EmptyMap)]

\* the seed of the first pass: phase in progress, condition Ready/Unknown
SeedResource(r) ==
    IF r.ready = NoReady
    THEN [r EXCEPT !.phase = DeploymentInProgressPhase,
                   !.ready = [status |-> "Unknown", reason |-> "Reconciling"]]
    ELSE r

\* the status the pass writes for what the provisioner reports; a pass that
\* finds the provisioner running returns before the switch and writes nothing
\* more than the seed
ResourceAfterRunningWritten(seeded, status) ==
    CASE status.State = "Success" ->
           [seeded EXCEPT !.phase = DeploymentDonePhase,
                          !.outputs = status.Outputs,
                          !.ready = [status |-> "True", reason |-> "DeploymentDone"]]
      [] status.State = "Failed" ->
           [seeded EXCEPT !.phase = DeploymentFailedPhase,
                          !.outputs = status.Outputs,
                          !.ready = [status |-> "False", reason |-> "DeploymentFailed"]]
      [] status.State = "Running" ->
           [seeded EXCEPT !.phase = DeploymentInProgressPhase,
                          !.ready = [status |-> "Unknown",
                                     reason |-> "DeploymentInProgress"]]
      [] OTHER -> seeded
ResourceAfterOutputsDropped(seeded, status) ==
    CASE status.State = "Success" ->
           [seeded EXCEPT !.phase = DeploymentDonePhase,
                          !.ready = [status |-> "True", reason |-> "DeploymentDone"]]
      [] status.State = "Failed" ->
           [seeded EXCEPT !.phase = DeploymentFailedPhase,
                          !.ready = [status |-> "False", reason |-> "DeploymentFailed"]]
      [] OTHER -> seeded
ResourceAfter(seeded, status) ==
    CASE status.State = "Success" ->
           [seeded EXCEPT !.phase = DeploymentDonePhase,
                          !.outputs = status.Outputs,
                          !.ready = [status |-> "True", reason |-> "DeploymentDone"]]
      [] status.State = "Failed" ->
           [seeded EXCEPT !.phase = DeploymentFailedPhase,
                          !.outputs = status.Outputs,
                          !.ready = [status |-> "False", reason |-> "DeploymentFailed"]]
      [] OTHER -> seeded

\* the Stack as the pass reads it: the one in the store, or the one the pass
\* creates, which has no status yet
StackOf(n) ==
    IF backend[n] = Absent THEN [state |-> "", outputs |-> NilV] ELSE backend[n]

\* the pass of a Resource that has no supported provisioner (its ResourceRef
\* is not in the store, or names another provisioner than pulumi): the seed
\* is all the pass writes
MaterializerSkips(n, end) ==
    /\ store' = [store EXCEPT ![n] = SeedResource(store[n])]
    /\ result' = [by |-> "materializer", end |-> end, requeue |-> "none"]
    /\ UNCHANGED backend

\* the pass with the Pulumi provisioner, which reports status
MaterializerRuns(n, status) ==
    /\ backend' = [backend EXCEPT ![n] = StackOf(n)]
    /\ result' = [by |-> "materializer", end |-> status.State,
                  requeue |-> CASE status.State = "Running" -> "after5s"
                                [] status.State = "panic"   -> "error"
                                [] OTHER                    -> "none"]
    /\ store' = [store EXCEPT ![n] = ResourceAfter(SeedResource(store[n]), status)]

MaterializerPass(n) ==
    /\ store[n] # Absent
    /\ IF store[n].resourceRef \notin DOMAIN ResourceRefs
       THEN MaterializerSkips(n, "missingRef")
       ELSE IF ResourceRefs[store[n].resourceRef] # "pulumi"
       THEN MaterializerSkips(n, "unsupported")
       ELSE MaterializerRuns(n, ProvisionerStatusOf(StackOf(n)))
    /\ UNCHANGED <<bundle, deployment>>

\* the Stack reports something else: the Pulumi operator finishes an
\* update, or the Stack is replaced and has no last update again
StackUpdate(n) ==
    /\ backend[n] # Absent
    /\ \E s \in StackStates :
          /\ s # backend[n]
          /\ backend' = [backend EXCEPT ![n] = s]
    /\ result' = [by |-> "operator", end |-> "updated", requeue |-> "none"]
    /\ UNCHANGED <<bundle, store, deployment>>

Init ==
    /\ bundle \in Bundles
    /\ store = [n \in PlannerNames |-> Absent]
    /\ deployment = [phase |-> NoPhase, conditions |-> NoConditions,
                     resources |-> NoStatuses]
    /\ backend = [n \in PlannerNames |-> Absent]
    /\ result = [by |-> "none", end |-> "none", requeue |-> "none"]
    /\ gBundle = <<>> /\ gResult = <<>>
    /\ group = <<>> /\ refStore = <<>> /\ namespaces = {} /\ deployments = {}
    /\ fanout = <<>>
    /\ tofuResources = <<>> /\ tofuObjects = {} /\ tofuResult = <<>>
    /\ exprScalar = <<>> /\ exprScope = <<>> /\ exprResult = <<>>
    /\ apiResource = <<>> /\ planner = <<>> /\ materializer = <<>>
    /\ lastWrite = <<>> /\ queued = FALSE

Next ==
    \/ PlannerPass /\ UNCHANGED <<graphVars, fanoutVars, tofuVars, exprVars, conflictVars, queued>>
    \/ \E n \in PlannerNames : MaterializerPass(n) /\ UNCHANGED <<graphVars, fanoutVars, tofuVars, exprVars, conflictVars, queued>>
    \/ \E n \in PlannerNames : StackUpdate(n) /\ UNCHANGED <<graphVars, fanoutVars, tofuVars, exprVars, conflictVars, queued>>

Spec == Init /\ [][Next]_vars

-----------------------------------------------------------------------------
(* BundleFanout (ResourceGroupReconciler.Reconcile) and RefCatalog         *)
(* (ResourceRefReconciler.Reconcile), for one ResourceGroup                *)

GroupName == "g"
RefNames == {"bucket", "queue"}

\* the placements the model knows, in byte order
PlacementOrder == <<"account-1", "account-2">>
Placements == Range(PlacementOrder)

\* the list RefCatalog publishes
PublishedPlacements == {"account-1"}

\* the phase BundleFanout takes for a deployment in progress
DeploymentRunningPhase == DeploymentInProgressPhase

\* sets.String.List() of a set of placements
SortPlacements(S) == SelectSeq(PlacementOrder, LAMBDA p : p \in S)

\* fmt.Sprintf("%s.%s", resourceGroup.Name, placement)
DeploymentName(groupName, placement) == <<groupName, placement>>

\* r.Get of a ResourceGroupDeployment: the stored objects under that key
GetDeployment(objects, namespace, name) ==
    {d \in objects : d.namespace = namespace /\ d.name = name}

\* the union of the placements of the referenced ResourceRefs; the loop
\* returns at the first ResourceRef that is not in the store
KnowPlacementsOfFirst(resources, refs) ==
    IF \E i \in DOMAIN resources : refs[resources[i].resourceRef] = Absent
    THEN [missing |-> TRUE, placements |-> {}]
    ELSE [missing |-> FALSE, placements |-> refs[resources[1].resourceRef].placements]
KnowPlacements(resources, refs) ==
    IF \E i \in DOMAIN resources : refs[resources[i].resourceRef] = Absent
    THEN [missing |-> TRUE, placements |-> {}]
    ELSE [missing |-> FALSE,
          placements |-> UNION {refs[resources[i].resourceRef].placements :
                                    i \in DOMAIN resources}]

\* the deployment BundleFanout creates: labels, placement, resources and the
\* owner reference; Spec.Parameters and Spec.Refs are not assigned
NewDeployment(g, namespace, placement) ==
    [namespace  |-> namespace,
     name       |-> DeploymentName(GroupName, placement),
     placement  |-> placement,
     resources  |-> g.resources,
     parameters |-> NilV,
     refs       |-> <<>>,
     owner      |-> GroupName,
     phase      |-> NoPhase]

\* step 2: one deployment per placement, in order; the loop returns at the
\* first Create that fails.  know collects the status of each deployment:
\* the local Running of a deployment just created, the stored phase of one
\* that was updated.
RECURSIVE FanoutLoop(_, _, _, _, _, _)
FanoutLoop(placements, g, namespace, objects, know, failAt) ==
    IF placements = <<>> THEN [end |-> "done", objects |-> objects, know |-> know]
    ELSE
      LET placement == Head(placements)
          name == DeploymentName(GroupName, placement)
          found == GetDeployment(objects, namespace, name)
      IN  IF found = {}
          THEN IF failAt = placement
               THEN [end |-> "createError", objects |-> objects, know |-> know]
               ELSE FanoutLoop(Tail(placements), g, namespace,
                        objects \cup {NewDeployment(g, namespace, placement)},
                        [n \in DOMAIN know \cup {name} |->
                            IF n = name THEN DeploymentRunningPhase ELSE know[n]],
                        failAt)
          ELSE LET current == CHOOSE d \in found : TRUE
                   updated == [current EXCEPT !.placement = placement,
                                              !.resources = g.resources]
               IN  FanoutLoop(Tail(placements), g, namespace,
                        (objects \ {current}) \cup {updated},
                        [n \in DOMAIN know \cup {name} |->
                            IF n = name THEN updated.phase ELSE know[n]],
                        failAt)

\* the group phase: in progress when a collected status is Running
GroupPhaseOfUnfinished(know) ==
    IF \E n \in DOMAIN know : know[n] # DeploymentDonePhase
    THEN DeploymentInProgressPhase
    ELSE DeploymentDonePhase
GroupPhaseOf(know) ==
    IF \E n \in DOMAIN know : know[n] = DeploymentRunningPhase
    THEN DeploymentInProgressPhase
    ELSE DeploymentDonePhase

\* the seed of the first pass: condition Ready/Unknown/Reconciling
SeedGroup(g) ==
    IF g.ready = NoReady
    THEN [g EXCEPT !.ready = [status |-> "Unknown", reason |-> "Reconciling"]]
    ELSE g

\* Create of the namespace failed: the condition Ready/False is written and
\* the pass returns the error of that status write, which is nil, not the
\* error of Create
NamespaceFailureReturnsCreateError(g) ==
    [group |-> [g EXCEPT !.ready =
                   [status |-> "False", reason |-> "NamespaceCreationFailed"]],
     requeue |-> "error"]
NamespaceFailure(g) ==
    [group |-> [g EXCEPT !.ready =
                   [status |-> "False", reason |-> "NamespaceCreationFailed"]],
     requeue |-> "none"]

FanoutPass ==
    \E namespaceFails \in BOOLEAN, failAt \in Placements \cup {"none"} :
      LET seeded == SeedGroup(group)
          known == KnowPlacements(seeded.resources, refStore)
          loop == FanoutLoop(SortPlacements(known.placements), seeded, GroupName,
                             deployments, [n \in {} |-> NoPhase], failAt)
      IN  IF GroupName \notin namespaces /\ namespaceFails
          THEN /\ group' = NamespaceFailure(seeded).group
               /\ fanout' = [by |-> "fanout", end |-> "namespaceError",
                             requeue |-> NamespaceFailure(seeded).requeue]
               /\ UNCHANGED <<refStore, namespaces, deployments>>
          ELSE IF known.missing
          THEN /\ group' = seeded
               /\ namespaces' = namespaces \cup {GroupName}
               /\ fanout' = [by |-> "fanout", end |-> "missingRef", requeue |-> "none"]
               /\ UNCHANGED <<refStore, deployments>>
          ELSE IF loop.end = "createError"
          THEN /\ group' = seeded
               /\ namespaces' = namespaces \cup {GroupName}
               /\ deployments' = loop.objects
               /\ fanout' = [by |-> "fanout", end |-> "createError", requeue |-> "error"]
               /\ UNCHANGED refStore
          ELSE /\ group' = [seeded EXCEPT
                               !.deployments = loop.know,
                               !.phase = GroupPhaseOf(loop.know),
                               !.ready = [status |-> "True",
                                          reason |-> GroupPhaseOf(loop.know)]]
               /\ namespaces' = namespaces \cup {GroupName}
               /\ deployments' = loop.objects
               /\ fanout' = [by |-> "fanout", end |-> "done", requeue |-> "none"]
               /\ UNCHANGED refStore

\* RefCatalog: status Ready and the published placements
RefCatalogPass(ref) ==
    /\ refStore[ref] # Absent
    /\ refStore' = [refStore EXCEPT ![ref] = [placements |-> PublishedPlacements]]
    /\ fanout' = [by |-> "catalog", end |-> "done", requeue |-> "none"]
    /\ UNCHANGED <<group, namespaces, deployments>>

\* spec.resources of a group: one or two entries, each with its ResourceRef
GroupResources ==
    {<<[name |-> "a", resourceRef |-> "bucket"]>>,
     <<[name |-> "a", resourceRef |-> "queue"]>>,
     <<[name |-> "a", resourceRef |-> "bucket"], [name |-> "b", resourceRef |-> "queue"]>>}

\* the user changes spec.resources of the group
GroupEdited ==
    /\ \E resources \in GroupResources \ {group.resources} :
          group' = [group EXCEPT !.resources = resources]
    /\ fanout' = [by |-> "user", end |-> "edited", requeue |-> "none"]
    /\ UNCHANGED <<refStore, namespaces, deployments>>

\* the Planner of a deployment writes the deployment's status phase
DeploymentPhaseWritten(placement) ==
    /\ \E d \in deployments, phase \in {DeploymentInProgressPhase, DeploymentDonePhase,
                                        DeploymentFailedPhase} :
          /\ d.placement = placement
          /\ d.phase # phase
          /\ deployments' = (deployments \ {d}) \cup {[d EXCEPT !.phase = phase]}
    /\ fanout' = [by |-> "planner", end |-> "done", requeue |-> "none"]
    /\ UNCHANGED <<group, refStore, namespaces>>

\* the ResourceRefs as the group finds them: not in the store, not yet
\* reconciled (no placements), or with placements published earlier
RefStatuses == {Absent} \cup {[placements |-> ps] : ps \in SUBSET Placements}

InitFanout ==
    /\ group \in [parameters : {MapV([k \in {"size"} |-> StrV(<<"1">>)])},
                  refs : {<<[name |-> "env", kind |-> "ConfigMap"]>>},
                  resources : GroupResources,
                  phase : {NoPhase},
                  ready : {NoReady},
                  deployments : {[n \in {} |-> NoPhase]}]
    /\ refStore \in [RefNames -> RefStatuses]
    /\ namespaces = {}
    /\ deployments = {}
    /\ fanout = [by |-> "none", end |-> "none", requeue |-> "none"]
    /\ gBundle = <<>> /\ gResult = <<>>
    /\ bundle = <<>> /\ store = <<>> /\ deployment = <<>> /\ backend = <<>>
    /\ result = <<>>
    /\ tofuResources = <<>> /\ tofuObjects = {} /\ tofuResult = <<>>
    /\ exprScalar = <<>> /\ exprScope = <<>> /\ exprResult = <<>>
    /\ apiResource = <<>> /\ planner = <<>> /\ materializer = <<>>
    /\ lastWrite = <<>> /\ queued = FALSE

NextFanout ==
    \/ FanoutPass /\ UNCHANGED <<graphVars, plannerVars, tofuVars, exprVars, conflictVars, queued>>
    \/ \E ref \in RefNames : RefCatalogPass(ref) /\ UNCHANGED <<graphVars, plannerVars, tofuVars, exprVars, conflictVars, queued>>
    \/ GroupEdited /\ UNCHANGED <<graphVars, plannerVars, tofuVars, exprVars, conflictVars, queued>>
    \/ \E p \in Placements : DeploymentPhaseWritten(p) /\ UNCHANGED <<graphVars, plannerVars, tofuVars, exprVars, conflictVars, queued>>

SpecFanout == InitFanout /\ [][NextFanout]_vars

-----------------------------------------------------------------------------
(* The OpenTofu provisioner (OpenTofuProvisioner.Run)                      *)

TofuNamespace == "g"
TofuNames == {"a", "b"}
TofuRefs == {"queue", "topic"}

\* kstatus of a Terraform object and its Ready condition
TerraformStatuses == [computed : {"InProgress", "Failed", "Current"}, ready : BOOLEAN]
\* an object just created has no status: kstatus computes Current, and there
\* is no Ready condition
NoTerraformStatus == [computed |-> "Current", ready |-> FALSE]

\* the GitRepository getOrNewRepo creates: named after the ResourceRef, in
\* the Resource's namespace, the ResourceRef as its controller owner
NewRepo(resource) ==
    [kind      |-> "GitRepository",
     namespace |-> resource.namespace,
     name      |-> resource.resourceRef,
     owner     |-> [kind |-> "ResourceRef", name |-> resource.resourceRef],
     status    |-> NoTerraformStatus]

\* the Terraform object getOrNewTerraform creates: named after the Resource,
\* in its namespace, the Resource as its controller owner
NewTerraform(resource) ==
    [kind      |-> "Terraform",
     namespace |-> resource.namespace,
     name      |-> resource.name,
     owner     |-> [kind |-> "Resource", name |-> resource.name],
     status    |-> NoTerraformStatus]

\* the objects of a kind stored under a namespace and a name
GetObject(objects, kind, namespace, name) ==
    {o \in objects : o.kind = kind /\ o.namespace = namespace /\ o.name = name}

\* Run's translation of the Terraform object's status
ProvisionedStateOf(status) ==
    CASE status.computed = "InProgress" -> "Running"
      [] status.computed = "Failed"     -> "Failed"
      [] status.ready                   -> "Success"
      [] OTHER                          -> "Running"

\* Run(resource).  repoFound, terraformFound: what the Get of each object
\* answers when the object is in the store (the Get goes through the dynamic
\* client under the resource names "gitrepo" and "terraform"; a Get that
\* answers not-found is followed by a Create, which fails when the object
\* exists)
OpenTofuRun(n) ==
    \E repoFound \in BOOLEAN, terraformFound \in BOOLEAN :
      LET resource == tofuResources[n]
          repo == GetObject(tofuObjects, "GitRepository", resource.namespace,
                            resource.resourceRef)
          terraform == GetObject(tofuObjects, "Terraform", resource.namespace,
                                 resource.name)
      IN  IF repo # {} /\ ~repoFound
          THEN /\ tofuResult' = [name |-> n, state |-> "error"]
               /\ UNCHANGED <<tofuResources, tofuObjects>>
          ELSE IF terraform # {} /\ ~terraformFound
          THEN /\ tofuObjects' = tofuObjects \cup {NewRepo(resource)}
               /\ tofuResult' = [name |-> n, state |-> "error"]
               /\ UNCHANGED tofuResources
          ELSE /\ tofuObjects' = tofuObjects \cup {NewRepo(resource)}
                                     \cup (IF terraform = {}
                                           THEN {NewTerraform(resource)} ELSE {})
               /\ tofuResult' =
                     [name |-> n,
                      state |-> IF terraform = {}
                                THEN ProvisionedStateOf(NewTerraform(resource).status)
                                ELSE ProvisionedStateOf(
                                         (CHOOSE o \in terraform : TRUE).status)]
               /\ UNCHANGED tofuResources

\* the Terraform controller writes the status of a Terraform object
TerraformUpdate(n) ==
    /\ \E o \in GetObject(tofuObjects, "Terraform", TofuNamespace, n),
          st \in TerraformStatuses :
          /\ st # o.status
          /\ tofuObjects' = (tofuObjects \ {o}) \cup {[o EXCEPT !.status = st]}
    /\ tofuResult' = [name |-> n, state |-> "updated"]
    /\ UNCHANGED tofuResources

InitTofu ==
    /\ tofuResources \in
          {f \in [TofuNames -> [namespace : {TofuNamespace}, name : TofuNames,
                                resourceRef : TofuRefs]] :
              \A n \in TofuNames : f[n].name = n}
    /\ tofuObjects = {}
    /\ tofuResult = [name |-> "none", state |-> "none"]
    /\ gBundle = <<>> /\ gResult = <<>>
    /\ bundle = <<>> /\ store = <<>> /\ deployment = <<>> /\ backend = <<>>
    /\ result = <<>>
    /\ group = <<>> /\ refStore = <<>> /\ namespaces = {} /\ deployments = {}
    /\ fanout = <<>>
    /\ exprScalar = <<>> /\ exprScope = <<>> /\ exprResult = <<>>
    /\ apiResource = <<>> /\ planner = <<>> /\ materializer = <<>>
    /\ lastWrite = <<>> /\ queued = FALSE

NextTofu ==
    \/ \E n \in TofuNames : OpenTofuRun(n) /\ UNCHANGED <<graphVars, plannerVars, fanoutVars, exprVars, conflictVars, queued>>
    \/ \E n \in TofuNames : TerraformUpdate(n) /\ UNCHANGED <<graphVars, plannerVars, fanoutVars, exprVars, conflictVars, queued>>

SpecTofu == InitTofu /\ [][NextTofu]_vars

-----------------------------------------------------------------------------
(* SpecExpr: Parse, Dependencies() and Evaluate applied to a scalar        *)

\* the operands the tokens of the model are made of: 'hello',
\* resources.a.status.outputs.id, refs.env.data.name, parameters.port and
\* parameters.resources.cpu.limit
ExprOperands ==
    {Const("hello"),
     Ref("resources", "a", OutputsPath),
     Ref("refs", "env", <<"data", "name">>),
     Ref("parameters", "port", <<>>),
     Ref("parameters", "resources", <<"cpu", "limit">>)}

ExprSegments == {Lit("hello"), Lit(", ")} \cup {Tok(<<o>>) : o \in ExprOperands}

\* the longest scalar, in segments
MaxSegments == 2

\* the scalars of a property tree as json.Unmarshal leaves them: a number,
\* or a string of literal text and tokens
ExprScalars ==
    {Typed(NumV(8080))}
        \cup {Scalar(segs) : segs \in UNION {[1..n -> ExprSegments] : n \in 1..MaxSegments}}

\* spec.parameters: {port: 8080, resources: {cpu: {limit: "2"}}}
ExprParameters ==
    [k \in {"port", "resources"} |->
        IF k = "port" THEN NumV(8080)
        ELSE MapV([c \in {"cpu"} |-> MapV([l \in {"limit"} |-> StrV(<<"2">>)])])]

\* the scope of an evaluation: the three roots, refs.env.data.name being the
\* given text and resources.a a Resource with outputs
ScopeWith(name) ==
    [k \in {"parameters", "refs", "resources"} |->
        CASE k = "parameters" -> MapV(ExprParameters)
          [] k = "refs" ->
               MapV([r \in {"env"} |-> MapV([d \in {"data"} |->
                         MapV([n \in {"name"} |-> StrV(<<name>>)])])])
          [] OTHER ->
               MapV([r \in {"a"} |-> MapV([st \in {"status"} |->
                         MapV([o \in {"outputs"} |-> Outputs1])])])]

ExprScopes == {EmptyMap} \cup {ScopeWith(name) : name \in {"world", HelloToken}}

NoExpression == [none |-> TRUE]

InitExpr ==
    /\ exprScalar \in ExprScalars
    /\ exprScope \in ExprScopes
    /\ exprResult = NoExpression
    /\ gBundle = <<>> /\ gResult = <<>>
    /\ bundle = <<>> /\ store = <<>> /\ deployment = <<>> /\ backend = <<>>
    /\ result = <<>>
    /\ group = <<>> /\ refStore = <<>> /\ namespaces = {} /\ deployments = {}
    /\ fanout = <<>>
    /\ tofuResources = <<>> /\ tofuObjects = {} /\ tofuResult = <<>>
    /\ apiResource = <<>> /\ planner = <<>> /\ materializer = <<>>
    /\ lastWrite = <<>> /\ queued = FALSE

\* Parse(scalar), then Dependencies() and Evaluate(scope) of what it returns
RunExpression ==
    /\ exprResult = NoExpression
    /\ exprResult' = [expression   |-> Parse(exprScalar),
                      dependencies |-> Dependencies(Parse(exprScalar)),
                      value        |-> Evaluate(Parse(exprScalar), exprScope)]
    /\ UNCHANGED <<exprScalar, exprScope>>

NextExpr ==
    RunExpression /\ UNCHANGED <<graphVars, plannerVars, fanoutVars, tofuVars, conflictVars, queued>>

SpecExpr == InitExpr /\ [][NextExpr]_vars

-----------------------------------------------------------------------------
(* SpecConflict: one existing Resource in the object store, the Planner's  *)
(* update of its spec.properties and the Materializer's status updates,    *)
(* call by call.  A Resource has the status subresource: Update writes     *)
(* metadata and spec, Status().Update writes the status, and both are      *)
(* refused with a conflict when the object sent does not carry the         *)
(* resourceVersion of the stored one.                                      *)

\* the properties a pass of the Planner evaluates to (rawProperties)
RawProperties ==
    {MapV([k \in {"size"} |-> StrV(<<v>>)]) : v \in {"1", "2"}}

\* the resourceVersions the store hands out
MaxVersion == 7

\* retry.DefaultRetry: the steps of RetryOnConflict
RetrySteps == 5

StatusOf(r) == [phase |-> r.phase, ready |-> r.ready, outputs |-> r.outputs]

ApiUpdateLastWriteWins(stored, obj) ==
    [conflict |-> FALSE,
     object |-> [obj EXCEPT !.resourceVersion = stored.resourceVersion + 1]]

\* r.Update(ctx, obj): the spec of obj stored when obj carries the stored
\* resourceVersion, the status of obj ignored; a write that changes nothing
\* leaves the resourceVersion
ApiUpdate(stored, obj) ==
    IF obj.resourceVersion # stored.resourceVersion
    THEN [conflict |-> TRUE, object |-> stored]
    ELSE IF obj.properties = stored.properties
    THEN [conflict |-> FALSE, object |-> stored]
    ELSE [conflict |-> FALSE,
          object |-> [stored EXCEPT !.properties = obj.properties,
                                    !.resourceVersion = @ + 1]]

\* r.Status().Update(ctx, obj): the status of obj stored, the spec ignored
ApiStatusUpdate(stored, obj) ==
    IF obj.resourceVersion # stored.resourceVersion
    THEN [conflict |-> TRUE, object |-> stored]
    ELSE IF StatusOf(obj) = StatusOf(stored)
    THEN [conflict |-> FALSE, object |-> stored]
    ELSE [conflict |-> FALSE,
          object |-> [stored EXCEPT !.phase = obj.phase, !.ready = obj.ready,
                                    !.outputs = obj.outputs,
                                    !.resourceVersion = @ + 1]]

\* the Resource as the Planner created it
CreatedResource(properties) ==
    [resourceRef |-> "bucket", properties |-> properties,
     phase |-> NoPhase, ready |-> NoReady, outputs |-> NilV,
     resourceVersion |-> 1]

InitConflict ==
    /\ apiResource \in {CreatedResource(p) : p \in RawProperties}
    /\ planner = [at |-> "idle", resource |-> Absent,
                  rawProperties |-> Absent, conflicts |-> 0]
    /\ materializer = [at |-> "idle", resource |-> Absent]
    /\ lastWrite = [by |-> "none", conflict |-> FALSE]
    /\ gBundle = <<>> /\ gResult = <<>>
    /\ bundle = <<>> /\ store = <<>> /\ deployment = <<>> /\ backend = <<>>
    /\ result = <<>>
    /\ group = <<>> /\ refStore = <<>> /\ namespaces = {} /\ deployments = {}
    /\ fanout = <<>>
    /\ tofuResources = <<>> /\ tofuObjects = {} /\ tofuResult = <<>>
    /\ exprScalar = <<>> /\ exprScope = <<>> /\ exprResult = <<>>
    /\ queued = FALSE

\* a pass of the Planner reaches a Resource that exists, with the properties
\* it has evaluated
PlannerReaches(p) ==
    /\ planner.at = "idle"
    /\ apiResource.resourceVersion < MaxVersion
    /\ planner' = [at |-> "get", resource |-> Absent,
                   rawProperties |-> p, conflicts |-> 0]
    /\ UNCHANGED <<apiResource, materializer, lastWrite>>

\* RetryOnConflict, the Get of one attempt
PlannerGets ==
    /\ planner.at = "get"
    /\ planner' = [planner EXCEPT !.at = "update", !.resource = apiResource]
    /\ UNCHANGED <<apiResource, materializer, lastWrite>>

\* RetryOnConflict, the Update of one attempt: Spec.Properties set on the
\* object read, then r.Update; a conflict starts the next attempt, the last
\* step ends the pass with the error
PlannerUpdates ==
    /\ planner.at = "update"
    /\ LET obj == [planner.resource EXCEPT !.properties = planner.rawProperties]
           w   == ApiUpdate(apiResource, obj)
       IN  /\ apiResource' = w.object
           /\ lastWrite' = [by |-> "planner", conflict |-> w.conflict]
           /\ planner' =
                IF ~w.conflict THEN [planner EXCEPT !.at = "idle"]
                ELSE IF planner.conflicts + 1 < RetrySteps
                THEN [planner EXCEPT !.at = "get", !.conflicts = @ + 1]
                ELSE [planner EXCEPT !.at = "idle", !.conflicts = @ + 1]
    /\ UNCHANGED materializer

\* reconcile.AsReconciler: the Resource read before Reconcile is called
MaterializerReads ==
    /\ materializer.at = "idle"
    /\ apiResource.resourceVersion < MaxVersion
    /\ materializer' =
         [at |-> IF apiResource.ready = NoReady THEN "seed" ELSE "run",
          resource |-> apiResource]
    /\ UNCHANGED <<apiResource, planner, lastWrite>>

\* the seed: newResourceCondition's Status().Update; an error ends the pass
MaterializerSeeds ==
    /\ materializer.at = "seed"
    /\ LET w == ApiStatusUpdate(apiResource, SeedResource(materializer.resource))
       IN  /\ apiResource' = w.object
           /\ lastWrite' = [by |-> "materializer", conflict |-> w.conflict]
           /\ materializer' =
                [materializer EXCEPT !.at = IF w.conflict THEN "idle" ELSE "get"]
    /\ UNCHANGED planner

\* newResourceCondition's Get after the seed
MaterializerGets ==
    /\ materializer.at = "get"
    /\ materializer' = [at |-> "run", resource |-> apiResource]
    /\ UNCHANGED <<apiResource, planner, lastWrite>>

\* the provisioner has run and reports status: nothing written while it is
\* running, the status written with Status().Update otherwise
MaterializerWrites(status) ==
    /\ materializer.at = "run"
    /\ IF status.State = "Running"
       THEN UNCHANGED <<apiResource, lastWrite>>
       ELSE LET w == ApiStatusUpdate(apiResource,
                                     ResourceAfter(materializer.resource, status))
            IN  /\ apiResource' = w.object
                /\ lastWrite' = [by |-> "materializer", conflict |-> w.conflict]
    /\ materializer' = [materializer EXCEPT !.at = "idle"]
    /\ UNCHANGED planner

\* what the provisioner can report
ProvisionerStatuses ==
    {ProvisionerStatusOf(s) : s \in {t \in StackStates : t.state = "" \/ IsMap(t.outputs)}}

NextConflict ==
    \/ \E p \in RawProperties : PlannerReaches(p) /\ UNCHANGED <<graphVars, plannerVars, fanoutVars, tofuVars, exprVars, queued>>
    \/ PlannerGets /\ UNCHANGED <<graphVars, plannerVars, fanoutVars, tofuVars, exprVars, queued>>
    \/ PlannerUpdates /\ UNCHANGED <<graphVars, plannerVars, fanoutVars, tofuVars, exprVars, queued>>
    \/ MaterializerReads /\ UNCHANGED <<graphVars, plannerVars, fanoutVars, tofuVars, exprVars, queued>>
    \/ MaterializerSeeds /\ UNCHANGED <<graphVars, plannerVars, fanoutVars, tofuVars, exprVars, queued>>
    \/ MaterializerGets /\ UNCHANGED <<graphVars, plannerVars, fanoutVars, tofuVars, exprVars, queued>>
    \/ \E status \in ProvisionerStatuses : MaterializerWrites(status) /\ UNCHANGED <<graphVars, plannerVars, fanoutVars, tofuVars, exprVars, queued>>

SpecConflict == InitConflict /\ [][NextConflict]_vars

-----------------------------------------------------------------------------
(* SpecChain: Spec for one deployment of three resources in a chain, b     *)
(* reading an output of a and c a property of b, with Stacks that succeed  *)
(* and whose outputs change from one update to the next                    *)

ChainNames == {"a", "b", "c"}

\* a: {n: "v"}, b: {n: "${resources.a.status.outputs.id}"},
\* c: {n: "${resources.b.spec.properties.n}"}
ChainBundle ==
    <<[name |-> "a", resourceRef |-> "bucket", properties |-> OneProperty(LiteralScalar)],
      [name |-> "b", resourceRef |-> "bucket", properties |-> OneProperty(OutputOf("a"))],
      [name |-> "c", resourceRef |-> "bucket", properties |-> OneProperty(PropertyOf("b"))]>>

Outputs2 == MapV([k \in {"id"} |-> StrV(<<"id2">>)])

\* the Pulumi operator finishes the first update of the Stack
StackSucceeds(n) ==
    /\ backend[n] # Absent
    /\ backend[n].state = ""
    /\ backend' = [backend EXCEPT ![n] = [state |-> "succeeded", outputs |-> Outputs1]]
    /\ result' = [by |-> "operator", end |-> "updated", requeue |-> "none"]
    /\ UNCHANGED <<bundle, store, deployment>>

\* a later update of the Stack succeeds with other outputs
StackRedeployed(n) ==
    /\ backend[n] # Absent
    /\ backend[n] = [state |-> "succeeded", outputs |-> Outputs1]
    /\ backend' = [backend EXCEPT ![n] = [state |-> "succeeded", outputs |-> Outputs2]]
    /\ result' = [by |-> "operator", end |-> "updated", requeue |-> "none"]
    /\ UNCHANGED <<bundle, store, deployment>>

InitChain ==
    /\ bundle = ChainBundle
    /\ store = [n \in ChainNames |-> Absent]
    /\ deployment = [phase |-> NoPhase, conditions |-> NoConditions,
                     resources |-> NoStatuses]
    /\ backend = [n \in ChainNames |-> Absent]
    /\ result = [by |-> "none", end |-> "none", requeue |-> "none"]
    /\ gBundle = <<>> /\ gResult = <<>>
    /\ group = <<>> /\ refStore = <<>> /\ namespaces = {} /\ deployments = {}
    /\ fanout = <<>>
    /\ tofuResources = <<>> /\ tofuObjects = {} /\ tofuResult = <<>>
    /\ exprScalar = <<>> /\ exprScope = <<>> /\ exprResult = <<>>
    /\ apiResource = <<>> /\ planner = <<>> /\ materializer = <<>>
    /\ lastWrite = <<>> /\ queued = FALSE

NextChain ==
    \/ PlannerPass /\ UNCHANGED <<graphVars, fanoutVars, tofuVars, exprVars, conflictVars, queued>>
    \/ \E n \in ChainNames : MaterializerPass(n) /\ UNCHANGED <<graphVars, fanoutVars, tofuVars, exprVars, conflictVars, queued>>
    \/ \E n \in ChainNames : StackSucceeds(n) /\ UNCHANGED <<graphVars, fanoutVars, tofuVars, exprVars, conflictVars, queued>>
    \/ \E n \in ChainNames : StackRedeployed(n) /\ UNCHANGED <<graphVars, fanoutVars, tofuVars, exprVars, conflictVars, queued>>

SpecChain == InitChain /\ [][NextChain]_vars

-----------------------------------------------------------------------------
(* Claims about Graph() (SpecGraph)                                        *)

Position(order, v) == CHOOSE i \in DOMAIN order : order[i] = v

\* the resources from which the references of b lead to a resource of S
RECURSIVE ReferencedClosure(_, _)
ReferencedClosure(b, S) ==
    LET S2 == S \cup UNION {References(b[n]) \cap DOMAIN b : n \in S}
    IN  IF S2 = S THEN S ELSE ReferencedClosure(b, S2)

\* what n refers to, directly or through other resources
ReachesByReference(b, n) == ReferencedClosure(b, References(b[n]) \cap DOMAIN b)

WellFormed(b) == \A n \in DOMAIN b : References(b[n]) \subseteq DOMAIN b
Acyclic(b)    == \A n \in DOMAIN b : n \notin ReachesByReference(b, n)
Plain(b)      == \A n \in DOMAIN b : \A k \in DOMAIN b[n] : IsPlainScalar(b[n][k])

EachOnce(order, b) ==
    /\ Len(order) = Cardinality(DOMAIN b)
    /\ \A n \in DOMAIN b : \E i \in DOMAIN order : order[i] = vertexNameFn(n)

AfterReferences(order, b) ==
    \A n \in DOMAIN b : \A x \in References(b[n]) :
        Position(order, vertexNameFn(x)) < Position(order, vertexNameFn(n))

\* C2: for every acyclic bundle Graph() returns a sequence that holds each
\* declared resource exactly once, every resource after all the resources
\* its properties refer to.
C2_GraphOrdersAcyclicBundle ==
    (gResult # NoGraph /\ WellFormed(gBundle) /\ Acyclic(gBundle))
        => /\ ~gResult.err
           /\ EachOnce(gResult.val, gBundle)
           /\ AfterReferences(gResult.val, gBundle)

\* the same result for every listing order and every map iteration order
Deterministic ==
    gResult # NoGraph =>
        \A listing \in Perms(DOMAIN gBundle), iter \in Perms(DOMAIN gBundle) :
            GraphOf(Listed(gBundle, listing), iter) = gResult

Incomparable(b, x, y) ==
    x \notin ReachesByReference(b, y) /\ y \notin ReachesByReference(b, x)

Before(order, x, y) ==
    Position(order, vertexNameFn(x)) < Position(order, vertexNameFn(y))

DependenciesOf(b, n) == Range(newResourceProperties(b[n]).dependencies)

-----------------------------------------------------------------------------
(* Claims about the Planner (Spec)                                         *)

BundleNames == {bundle[i].name : i \in DOMAIN bundle}

HasDuplicate ==
    \E i, j \in DOMAIN bundle : i # j /\ bundle[i].name = bundle[j].name

\* the bundle as a function from name to properties (the first entry of a name)
BundleMap ==
    [n \in BundleNames |->
        bundle[CHOOSE i \in DOMAIN bundle :
                   bundle[i].name = n /\ \A j \in 1..(i - 1) : bundle[j].name # n].properties]

\* b's properties reference resources.a
Refers(b, a) == b \in BundleNames /\ a \in References(BundleMap[b])

\* the property dependency graph has a cycle
Cyclic == \E n \in BundleNames : n \in ReachesByReference(BundleMap, n)

Created(n) == store[n] = Absent /\ store'[n] # Absent

\* the order the Planner walks, <<>> when registration or Graph() fails
PlannerDag ==
    LET r == RegisterCandidates(NewResourceGroup, bundle)
    IN  IF r.err THEN <<>>
        ELSE LET g == Graph(r.val, CHOOSE iter \in Perms(DOMAIN r.val.all) : TRUE)
             IN  IF g.err THEN <<>> ELSE g.val

Walks(x, y) ==
    /\ \E i \in DOMAIN PlannerDag : PlannerDag[i] = vertexNameFn(x)
    /\ \E i \in DOMAIN PlannerDag : PlannerDag[i] = vertexNameFn(y)
    /\ Before(PlannerDag, x, y)

\* C1: the Planner never creates the Resource of B, whose properties
\* reference resources.A, while the stored Resource A is absent or has a
\* phase other than Done.
C1_NoCreationBeforeDone ==
    [][\A a, b \in PlannerNames :
          (Refers(b, a) /\ Created(b))
              => (store[a] # Absent /\ store[a].phase = DeploymentDonePhase)]_vars

\* C4: when a Resource has phase Failed, the Planner creates or updates no
\* Resource that comes later in the order.
C4_FailedStopsDriving ==
    [][\A x, y \in PlannerNames :
          (Walks(x, y) /\ store[x] # Absent /\ store[x].phase = DeploymentFailedPhase)
              => /\ ~Created(y)
                 /\ (store[y] # Absent => store'[y].properties = store[y].properties)]_vars

\* the phase the statuses of the stored Resources aggregate to
PhaseOfResources ==
    IF \E n \in BundleNames : store[n] # Absent /\ store[n].phase = DeploymentFailedPhase
    THEN DeploymentFailedPhase
    ELSE IF \E n \in BundleNames :
                store[n] # Absent /\ store[n].phase = DeploymentInProgressPhase
         THEN DeploymentInProgressPhase
         ELSE DeploymentDonePhase

WalkCompleted == result.by = "planner" /\ result.end = "walked"

C6_CycleFailsDeployment ==
    (Cyclic /\ result.by = "planner")
        => /\ deployment.phase = DeploymentFailedPhase
           /\ \E t \in DOMAIN deployment.conditions :
                  deployment.conditions[t].reason = "DependencyCycle"

\* C7: when the dependency graph has a cycle, no Resource of the deployment
\* is ever created.
C7_CycleCreatesNothing ==
    Cyclic => \A n \in PlannerNames : store[n] = Absent

\* C8: a pass over a bundle with two entries of the same name fails at
\* registration, and no Resource is created or updated.
C8_DuplicateFailsAtRegistration ==
    HasDuplicate =>
        /\ \A n \in PlannerNames : store[n] = Absent
        /\ result.by = "planner" => result.end = "registerError"

C8_Witness ==
    HasDuplicate /\ result.by = "planner" /\ result.end = "registerError"
        /\ deployment.phase = DeploymentInProgressPhase

\* b's one property is ${resources.a.status.outputs.id}
ReadsOutputOf(b, a) == b \in BundleNames /\ BundleMap[b] = OneProperty(OutputOf(a))

\* C9: a Done Resource A is in the scope under resources.A with its
\* persisted status.outputs, and the Resource the Planner creates for B,
\* whose property is ${resources.A.status.outputs.id}, holds the value of
\* A's output id.
C9_OutputsReachDownstream ==
    [][\A a, b \in PlannerNames :
          (store[a] # Absent /\ store[a].phase = DeploymentDonePhase) =>
              /\ FetchPath(MapV(WithResource(
                               NewResourcePropertiesArgs(EmptyMap, RefObjects),
                               a, store[a])),
                           <<"resources", a, "status", "outputs">>) = store[a].outputs
              /\ (ReadsOutputOf(b, a) /\ Created(b))
                     => store'[b].properties
                            = MapV([k \in {"n"} |-> Fetch(store[a].outputs, "id")])]_vars

\* the pass has just created b from the output of the Done Resource a
C9_Witness ==
    /\ result.by = "planner" /\ result.end = "created"
    /\ ReadsOutputOf("b", "a")
    /\ store["a"] # Absent /\ store["a"].phase = DeploymentDonePhase
    /\ store["b"] # Absent /\ store["b"].phase = NoPhase
    /\ store["b"].properties = MapV([k \in {"n"} |-> StrV(<<"id1">>)])

-----------------------------------------------------------------------------
(* Claims about BundleFanout (SpecFanout)                                  *)

\* a pass that ran to its end and wrote the group status
FanoutSucceeded == fanout.by = "fanout" /\ fanout.end = "done"

\* the placements of the ResourceRefs the group's resources reference
PlacementUnion ==
    UNION {IF refStore[group.resources[i].resourceRef] = Absent THEN {}
           ELSE refStore[group.resources[i].resourceRef].placements :
               i \in DOMAIN group.resources}

\* C10: after every successful BundleFanout pass there is, for every
\* placement of the union of the placements of the referenced ResourceRefs,
\* exactly one ResourceGroupDeployment for it, named <group>.<placement>,
\* in the namespace named after the group.
C10_OneDeploymentPerPlacement ==
    FanoutSucceeded =>
        /\ GroupName \in namespaces
        /\ \A p \in PlacementUnion :
              /\ Cardinality({d \in deployments :
                     d.name = DeploymentName(GroupName, p) /\ d.namespace = GroupName}) = 1
              /\ \A d \in deployments :
                     (d.owner = GroupName /\ d.placement = p)
                         => (d.name = DeploymentName(GroupName, p)
                                /\ d.namespace = GroupName)

\* a pass over a union of two placements, one of whose deployments was
\* there before the pass
C10_Witness ==
    /\ FanoutSucceeded
    /\ PlacementUnion = Placements
    /\ Cardinality(deployments) = 2
    /\ \E d \in deployments : d.phase = DeploymentDonePhase
    /\ \E d \in deployments : d.phase = NoPhase

\* the deployments the group owns
OwnedDeployments == {d \in deployments : d.owner = GroupName}

\* C11: after every successful BundleFanout pass the number of
\* ResourceGroupDeployments owned by the group equals the number of
\* placements in the current union, also after the union changed or shrank
\* (no deployment remains for a placement that left the union).
C11_DeploymentCountIsPlacementCount ==
    FanoutSucceeded =>
        /\ Cardinality(OwnedDeployments) = Cardinality(PlacementUnion)
        /\ \A d \in OwnedDeployments : d.placement \in PlacementUnion

\* C12: after a successful BundleFanout pass the spec of every owned
\* deployment of the current union equals the group's spec in parameters,
\* refs and resources, plus the deployment's own placement.
C12_DeploymentSpecMirrorsGroup ==
    FanoutSucceeded =>
        \A p \in PlacementUnion :
            \A d \in GetDeployment(deployments, GroupName, DeploymentName(GroupName, p)) :
                /\ d.placement = p
                /\ d.resources = group.resources
                /\ d.parameters = group.parameters
                /\ d.refs = group.refs

\* the Ready condition that goes with a group phase
ReadyFor(phase) == [status |-> "True", reason |-> phase]

CollectedPhase(p) ==
    LET found == GetDeployment(deployments, GroupName, DeploymentName(GroupName, p))
    IN  IF found = {} THEN DeploymentRunningPhase
        ELSE (CHOOSE d \in found : TRUE).phase

C14_GroupDoneOnlyWhenAllDone ==
    group.phase = DeploymentDonePhase =>
        \A d \in OwnedDeployments : d.phase = DeploymentDonePhase

-----------------------------------------------------------------------------
(* Claims about the Materializer (Spec)                                    *)

\* the Resource n has the Pulumi provisioner
HasPulumi(n) ==
    /\ store[n] # Absent
    /\ store[n].resourceRef \in DOMAIN ResourceRefs
    /\ ResourceRefs[store[n].resourceRef] = "pulumi"

\* what the provisioner reports for the Resource n in this state
Reported(n) == ProvisionerStatusOf(StackOf(n))

\* C15: when the provisioner reports a terminal state, the pass of the
\* Materializer writes, in its one status update: for Success the phase
\* Done, the condition Ready=True/DeploymentDone and the provisioner's
\* outputs in status.outputs; for Failed the phase Failed and the condition
\* Ready=False/DeploymentFailed.
C15_TerminalStateWritten ==
    [][\A n \in PlannerNames :
          (HasPulumi(n) /\ MaterializerPass(n)) =>
              /\ Reported(n).State = "Success" =>
                    /\ store'[n].phase = DeploymentDonePhase
                    /\ store'[n].ready = [status |-> "True", reason |-> "DeploymentDone"]
                    /\ store'[n].outputs = Reported(n).Outputs
                    /\ IsMap(store'[n].outputs)
              /\ Reported(n).State = "Failed" =>
                    /\ store'[n].phase = DeploymentFailedPhase
                    /\ store'[n].ready = [status |-> "False", reason |-> "DeploymentFailed"]]_vars

\* a Resource written Done with its outputs and one written Failed
C15_Witness ==
    /\ result.by = "materializer"
    /\ \E n \in PlannerNames :
          /\ store[n] # Absent
          /\ store[n].phase = DeploymentDonePhase
          /\ store[n].outputs = Outputs1
    /\ \E n \in PlannerNames :
          /\ store[n] # Absent
          /\ store[n].phase = DeploymentFailedPhase
          /\ store[n].ready = [status |-> "False", reason |-> "DeploymentFailed"]

\* the phase of the Resource n is terminal
Terminal(n) ==
    /\ store[n] # Absent
    /\ store[n].phase \in {DeploymentDonePhase, DeploymentFailedPhase}

\* the step leaves the spec of the Resource n as it was (same generation)
SameGeneration(n) ==
    /\ store'[n] # Absent
    /\ store'[n].resourceRef = store[n].resourceRef
    /\ store'[n].properties = store[n].properties

\* C16: within one spec generation of a Resource, no pass of the
\* Materializer or of the Planner moves its phase from Done or Failed back
\* to the in-progress phase.
C16_NoWayBackToDeploying ==
    [][\A n \in PlannerNames :
          (Terminal(n) /\ SameGeneration(n))
              => store'[n].phase # DeploymentInProgressPhase]_vars

\* a pass of the Materializer over a terminal Resource whose Stack reports no
\* last update any more
C16_Witness ==
    /\ result.by = "materializer" /\ result.end = "Running"
    /\ \E n \in PlannerNames :
          /\ Terminal(n)
          /\ backend[n] # Absent
          /\ backend[n].state = ""

\* C17: once a Resource has reached a terminal phase for a given spec, its
\* phase stays that same value in every later state until its spec changes,
\* whatever the backend object reports in later passes of the Materializer.
C17_TerminalPhaseStays ==
    [][\A n \in PlannerNames :
          (Terminal(n) /\ SameGeneration(n))
              => store'[n].phase = store[n].phase]_vars

\* C18: a Resource whose ResourceRef names a provisioner the Materializer
\* does not support stays at the in-progress phase once the Materializer has
\* seen it, carries the condition UnsupportedProvisioner, and has no backend
\* object.
C18_UnsupportedProvisionerMarked ==
    \A n \in PlannerNames :
        (/\ store[n] # Absent
         /\ ResourceRefs[store[n].resourceRef] # "pulumi"
         /\ store[n].ready # NoReady)
            => /\ store[n].phase = DeploymentInProgressPhase
               /\ backend[n] = Absent
               /\ store[n].ready.reason = "UnsupportedProvisioner"

-----------------------------------------------------------------------------
(* Claims about running a reconcile twice (Spec)                           *)

\* the spec of a stored Resource
ResourceSpecOf(r) == [resourceRef |-> r.resourceRef, properties |-> r.properties]

\* C20: a second run of the Planner on a deployment, with no external
\* change since the first run, leaves the store as it was: it creates no
\* Resource and the spec of every Resource is what the first run left.
C20_SecondRunChangesNothing ==
    [][(/\ result.by = "planner"
        /\ result.end # "createError"
        /\ result'.by = "planner")
          => \A n \in PlannerNames :
                /\ (store[n] = Absent) <=> (store'[n] = Absent)
                /\ store[n] # Absent
                      => ResourceSpecOf(store'[n]) = ResourceSpecOf(store[n])]_vars

-----------------------------------------------------------------------------
(* Claims about ownership (SpecTofu)                                       *)

\* C19: every object the controllers create carries a controller owner
\* reference along the chain group -> namespace, group -> deployment,
\* deployment -> Resource, Resource -> backend object, so that deleting a
\* group removes, by ownership cascade, all of them.  Checked on the last
\* link: the controller owner of every backend object is a Resource of the
\* object's namespace.
C19_BackendOwnedByResource ==
    \A o \in tofuObjects :
        \E n \in TofuNames :
            /\ o.owner = [kind |-> "Resource", name |-> n]
            /\ o.namespace = tofuResources[n].namespace

-----------------------------------------------------------------------------
(* Claims about expressions (SpecExpr)                                     *)

Parsed == exprResult # NoExpression

\* a scalar without any ${...} token, of whatever type
IsLiteral(scalar) ==
    IsString(scalar) => \A i \in DOMAIN scalar.segs : ~IsTok(scalar.segs[i])

\* the value a literal scalar stands for: itself
LiteralValue(scalar) ==
    IF IsString(scalar)
    THEN StrV([i \in DOMAIN scalar.segs |-> scalar.segs[i].lit])
    ELSE scalar.typed

\* C21: a literal scalar, of any scalar type, parses to an expression that
\* evaluates on the empty scope to the scalar itself and has no dependencies
C21_LiteralEvaluatesToItself ==
    Parsed /\ IsLiteral(exprScalar) /\ exprScope = EmptyMap
        => /\ exprResult.expression.kind = "simple"
           /\ exprResult.value = LiteralValue(exprScalar)
           /\ exprResult.dependencies = <<>>

\* the text a value is written as inside a string: a string as it is, a
\* number by its digits
Written(v) == IF IsNum(v) THEN <<ToString(v.num)>> ELSE v.s

\* the source text of a scalar with every token replaced by the written value
\* of its expression in the scope, the literal text kept
Substituted(scalar, variables) ==
    StrV(Flatten([i \in DOMAIN scalar.segs |->
        IF IsTok(scalar.segs[i])
        THEN Written(ExprEvaluate(scalar.segs[i].tok, variables))
        ELSE <<scalar.segs[i].lit>>]))

\* every token of the scalar evaluates in the scope to a string or a number
TokensEvaluate(scalar, variables) ==
    \A i \in DOMAIN scalar.segs :
        IsTok(scalar.segs[i]) =>
            LET v == ExprEvaluate(scalar.segs[i].tok, variables)
            IN  IsStr(v) \/ IsNum(v)

IsComposite == Parsed /\ exprResult.expression.kind = "composite"

\* C22: a composite expression evaluates to its source text with every token
\* replaced by the stringified value of its expression in the scope and the
\* literal text outside the tokens unchanged
C22_CompositeSubstitutesTokens ==
    IsComposite /\ TokensEvaluate(exprScalar, exprScope)
        => exprResult.value = Substituted(exprScalar, exprScope)

IsSingle == Parsed /\ exprResult.expression.kind = "expr"

\* the dependencies an expression stands for: one per operand that starts
\* with the root resources or refs, none for a constant or for parameters
Named(operands) ==
    Flatten([i \in DOMAIN operands |->
        IF ~IsConst(operands[i]) /\ operands[i].root \in {"resources", "refs"}
        THEN << <<operands[i].root, operands[i].name>> >>
        ELSE <<>>])

\* C23: Dependencies() of a single expression is [resources.X] for
\* ${resources.X.<path>}, [refs.Y] for ${refs.Y.<path>}, and empty for an
\* expression of constants or of the parameters root only
C23_SingleDependencies ==
    IsSingle => exprResult.dependencies = Named(exprResult.expression.source)

-----------------------------------------------------------------------------
(* Claims about concurrent writers of one Resource (SpecConflict)          *)

\* the step is a write of the Planner, or of the Materializer
PlannerWrote      == planner.at = "update" /\ planner' # planner
MaterializerWrote ==
    /\ materializer.at \in {"seed", "run"}
    /\ materializer' # materializer
    /\ lastWrite'.by = "materializer"

\* the writer's object does not carry the stored resourceVersion
Stale(obj) == obj.resourceVersion # apiResource.resourceVersion

\* C24: in every interleaving the Planner's update stores its properties and
\* leaves the status, the Materializer's status update leaves the
\* properties, and a write against a stale resourceVersion changes nothing
\* in the store and is retried or ends the pass
C24_BothWritesSurvive ==
    [][ /\ PlannerWrote /\ ~Stale(planner.resource)
            => /\ apiResource'.properties = planner.rawProperties
               /\ StatusOf(apiResource') = StatusOf(apiResource)
        /\ MaterializerWrote /\ ~Stale(materializer.resource)
            => /\ apiResource'.properties = apiResource.properties
               /\ StatusOf(apiResource') \in
                      {StatusOf(SeedResource(materializer.resource))}
                          \cup {StatusOf(ResourceAfter(materializer.resource, st)) :
                                   st \in ProvisionerStatuses}
        /\ PlannerWrote /\ Stale(planner.resource)
            => /\ apiResource' = apiResource
               /\ lastWrite'.conflict
               /\ planner'.at \in {"get", "idle"}
        /\ MaterializerWrote /\ Stale(materializer.resource)
            => /\ apiResource' = apiResource
               /\ lastWrite'.conflict
               /\ materializer'.at = "idle"
      ]_vars

\* the Planner's update went through on a retry after a conflict, and the
\* status the Materializer wrote in between is in the stored object beside it
C24_Witness ==
    /\ lastWrite = [by |-> "planner", conflict |-> FALSE]
    /\ planner.at = "idle" /\ planner.conflicts > 0
    /\ apiResource.properties = planner.rawProperties
    /\ apiResource.properties # planner.resource.properties
    /\ apiResource.phase = DeploymentDonePhase
    /\ apiResource.outputs = Outputs1

-----------------------------------------------------------------------------
(* Claims about the Planner's errors (Spec)                                *)

\* the step is a pass of the Planner that ended as end
PlannerEnds(end) == result'.by = "planner" /\ result'.end = end

\* C28: a pass in which the evaluation of a resource's properties fails
\* creates no Resource and leaves the deployment phase Failed
C28_EvaluationErrorFailsDeployment ==
    [][ PlannerEnds("evaluateError")
            => /\ \A n \in PlannerNames : store[n] = Absent => store'[n] = Absent
               /\ deployment'.phase = DeploymentFailedPhase ]_vars

\* C29: a pass that ends on a fatal spec error (a duplicate resource name at
\* registration, a dependency cycle in Graph()) returns a result that does
\* not requeue the deployment
C29_SpecErrorDoesNotRequeue ==
    result.by = "planner" /\ result.end \in {"registerError", "graphError"}
        => result.requeue = "none"

-----------------------------------------------------------------------------
(* Claims about BundleFanout's errors (SpecFanout)                         *)

\* a ResourceRef the group's resources name is not in the store, or has no
\* placements published yet
RefNotReady ==
    \E i \in DOMAIN group.resources :
        \/ refStore[group.resources[i].resourceRef] = Absent
        \/ refStore[group.resources[i].resourceRef].placements = {}

\* C30: a pass of BundleFanout that meets a missing or unready ResourceRef
\* ends with a result that requeues the group
C30_UnreadyRefRequeues ==
    /\ fanout.by = "fanout"
    /\ fanout.end \in {"missingRef", "done"}
    /\ RefNotReady
        => fanout.requeue # "none"

-----------------------------------------------------------------------------
(* Claims about the pass that creates a Resource (SpecChain)               *)

\* the Resources the step creates, and the Resources it changes otherwise
CreatedNow == {n \in ChainNames : store[n] = Absent /\ store'[n] # Absent}
UpdatedNow == {n \in ChainNames : store[n] # Absent /\ store'[n] # store[n]}

\* the pass has emitted the condition InProgress/DeploymentInProgress and
\* ended with the requeue delay
EndsInProgress ==
    /\ "InProgress" \in DOMAIN deployment'.conditions
    /\ deployment'.conditions["InProgress"] =
           [status |-> "True", reason |-> "DeploymentInProgress"]
    /\ result'.requeue = "after5s"

-----------------------------------------------------------------------------
(* SpecLive: Spec for the deployments whose bundle is acyclic, names each  *)
(* resource once, refers to listed resources only and uses the Pulumi      *)
(* provisioner, with Stacks that succeed, under weak fairness of the       *)
(* passes and of the Stacks                                                *)

InitLive ==
    /\ bundle \in Bundles
    /\ ~HasDuplicate /\ ~Cyclic /\ WellFormed(BundleMap)
    /\ \A i \in DOMAIN bundle : ResourceRefs[bundle[i].resourceRef] = "pulumi"
    /\ store = [n \in PlannerNames |-> Absent]
    /\ deployment = [phase |-> NoPhase, conditions |-> NoConditions,
                     resources |-> NoStatuses]
    /\ backend = [n \in PlannerNames |-> Absent]
    /\ result = [by |-> "none", end |-> "none", requeue |-> "none"]
    /\ gBundle = <<>> /\ gResult = <<>>
    /\ group = <<>> /\ refStore = <<>> /\ namespaces = {} /\ deployments = {}
    /\ fanout = <<>>
    /\ tofuResources = <<>> /\ tofuObjects = {} /\ tofuResult = <<>>
    /\ exprScalar = <<>> /\ exprScope = <<>> /\ exprResult = <<>>
    /\ apiResource = <<>> /\ planner = <<>> /\ materializer = <<>>
    /\ lastWrite = <<>> /\ queued = FALSE

LiveMaterializer(n) ==
    MaterializerPass(n) /\ UNCHANGED <<graphVars, fanoutVars, tofuVars, exprVars, conflictVars, queued>>

LiveStack(n) ==
    StackSucceeds(n) /\ UNCHANGED <<graphVars, fanoutVars, tofuVars, exprVars, conflictVars, queued>>

NextLive ==
    \/ PlannerPass /\ UNCHANGED <<graphVars, fanoutVars, tofuVars, exprVars, conflictVars, queued>>
    \/ \E n \in PlannerNames : LiveMaterializer(n)
    \/ \E n \in PlannerNames : LiveStack(n)

\* the last step was a pass of the Planner in which r.Create, if called,
\* succeeded
PlannerHasRun == result.by = "planner" /\ result.end # "createError"

\* the passes of the Planner keep coming (a pass is possible in every
\* state), the work queue runs the pass of a Resource that is due, the
\* Pulumi operator finishes the update of a Stack
FairLive ==
    /\ []<>PlannerHasRun
    /\ \A n \in PlannerNames : WF_vars(LiveMaterializer(n))
    /\ \A n \in PlannerNames : WF_vars(LiveStack(n))

SpecLive == InitLive /\ [][NextLive]_vars /\ FairLive

-----------------------------------------------------------------------------
(* Claims about progress (SpecLive)                                        *)

\* every Resource of the deployment exists with phase Done, the deployment
\* phase is Done and the last pass of the Planner asked for no requeue
Settled ==
    /\ \A n \in BundleNames : store[n] # Absent /\ store[n].phase = DeploymentDonePhase
    /\ deployment.phase = DeploymentDonePhase
    /\ result.by = "planner" => result.requeue = "none"

\* C25: for an acyclic bundle, under weak fairness of the passes and with
\* Stacks that succeed, eventually every Resource is created and Done, the
\* deployment phase is Done, and from then on the Planner does not requeue
C25_EventuallySettled == <>[]Settled

-----------------------------------------------------------------------------
(* SpecFanoutQueue: SpecFanout for a group whose spec stays as it is, with *)
(* the work queue of the group.  The controller is set up                  *)
(* For(ResourceGroup) and Owns(ResourceGroupDeployment): a change of the   *)
(* group object or of a deployment it owns puts the group on the queue, a  *)
(* change of a ResourceRef does not; a pass runs when the group is on the  *)
(* queue.                                                                  *)

InitFanoutQueue ==
    /\ group \in [parameters : {MapV([k \in {"size"} |-> StrV(<<"1">>)])},
                  refs : {<<[name |-> "env", kind |-> "ConfigMap"]>>},
                  resources : GroupResources,
                  phase : {NoPhase},
                  ready : {NoReady},
                  deployments : {[n \in {} |-> NoPhase]}]
    /\ refStore \in [RefNames -> RefStatuses]
    /\ namespaces = {}
    /\ deployments = {}
    /\ fanout = [by |-> "none", end |-> "none", requeue |-> "none"]
    /\ queued = TRUE
    /\ gBundle = <<>> /\ gResult = <<>>
    /\ bundle = <<>> /\ store = <<>> /\ deployment = <<>> /\ backend = <<>>
    /\ result = <<>>
    /\ tofuResources = <<>> /\ tofuObjects = {} /\ tofuResult = <<>>
    /\ exprScalar = <<>> /\ exprScope = <<>> /\ exprResult = <<>>
    /\ apiResource = <<>> /\ planner = <<>> /\ materializer = <<>>
    /\ lastWrite = <<>>

\* the pass of a queued group, the API server failing none of its calls; the
\* group is on the queue again when the result asks for it, when the pass
\* has changed the group object, and when it has created or changed a
\* deployment
QueuedFanoutPass ==
    /\ queued
    /\ FanoutPass
    /\ fanout'.end \in {"done", "missingRef"}
    /\ queued' = (\/ fanout'.requeue # "none"
                  \/ group' # group
                  \/ deployments' # deployments)
    /\ UNCHANGED <<graphVars, plannerVars, tofuVars, exprVars, conflictVars>>

\* RefCatalog writes the status of a ResourceRef: no event for the group
QueuedRefCatalogPass(ref) ==
    /\ RefCatalogPass(ref)
    /\ UNCHANGED <<queued, graphVars, plannerVars, tofuVars, exprVars, conflictVars>>

QueuedDeploymentPhaseWritten(p) ==
    /\ DeploymentPhaseWritten(p)
    /\ queued' = TRUE
    /\ UNCHANGED <<graphVars, plannerVars, tofuVars, exprVars, conflictVars>>

NextFanoutQueue ==
    \/ QueuedFanoutPass
    \/ \E ref \in RefNames : QueuedRefCatalogPass(ref)
    \/ \E p \in Placements : QueuedDeploymentPhaseWritten(p)

\* the work queues run what is on them: the group's pass, and RefCatalog's
\* pass of every ResourceRef
FairFanoutQueue ==
    /\ WF_vars(QueuedFanoutPass)
    /\ \A ref \in RefNames : WF_vars(QueuedRefCatalogPass(ref))

SpecFanoutQueue == InitFanoutQueue /\ [][NextFanoutQueue]_vars /\ FairFanoutQueue

-----------------------------------------------------------------------------
(* Claims about BundleFanout and RefCatalog together (SpecFanoutQueue)     *)

\* every ResourceRef the group references is in the store with placements
Published ==
    \A i \in DOMAIN group.resources :
        /\ refStore[group.resources[i].resourceRef] # Absent
        /\ refStore[group.resources[i].resourceRef].placements # {}

\* the group has a deployment for every published placement
Fanned == \A p \in PlacementUnion : \E d \in OwnedDeployments : d.placement = p

\* the group is recorded as Done and owns no deployment
DoneWithNothing == group.phase = DeploymentDonePhase /\ OwnedDeployments = {}

\* C26: once the placements of the referenced ResourceRefs are published,
\* the group eventually has a deployment for each of them, also when its
\* first pass ran before the publication, and it is not left recorded as
\* DeploymentDone with no deployment
C26_FanoutFollowsPublication ==
    /\ Published ~> Fanned
    /\ Published ~> ~DoneWithNothing

-----------------------------------------------------------------------------
(* Claims about the namespace of a group (SpecFanout)                      *)

\* a pass of BundleFanout ended and the namespace of the group still does
\* not exist: Create of the namespace failed in that pass
NamespaceCreationFailedNow == fanout'.by = "fanout" /\ GroupName \notin namespaces'

-----------------------------------------------------------------------------
(* Claims about the dependencies Graph() is given (SpecGraph)              *)

\* the bundle with every property that reads a ref taken away
WithoutRefs(b) ==
    [n \in DOMAIN b |-> IF b[n] = OneProperty(RefScalar) THEN NoProperties ELSE b[n]]

ReadsRef(b) == \E n \in DOMAIN b : b[n] = OneProperty(RefScalar)

\* what Graph() returns for a bundle, over the listing and iteration orders
GraphResults(b) ==
    {GraphOf(Listed(b, listing), iter) :
        listing \in Perms(DOMAIN b), iter \in Perms(DOMAIN b)}

\* C32: the vertices of the graph are the declared resources, one each; a
\* property that reads refs.<name> adds no vertex and no edge and does not
\* make Graph() fail, so the result is the one of the same bundle with the
\* resources that read only refs declared without dependencies
C32_RefsAddNothingToTheGraph ==
    (gResult # NoGraph /\ ReadsRef(gBundle))
        => /\ gResult \in GraphResults(WithoutRefs(gBundle))
           /\ ~gResult.err => EachOnce(gResult.val, gBundle)

-----------------------------------------------------------------------------
(* Claims about the dependencies of expressions (SpecExpr, SpecGraph)      *)

\* the dependencies of the ${...} sub-expressions of a composite expression
SubDependencies(e) ==
    UNION {Range(Dependencies(e.expressions[i])) : i \in DOMAIN e.expressions}

\* C33: Dependencies() of a composite expression is the union of the
\* dependencies of its ${...} sub-expressions: every entry is a resources.X or
\* refs.X node of some sub-expression and there is no other entry, such as an
\* empty string; a composite of constants only has no dependencies
C33_CompositeDependenciesAreTheUnion ==
    IsComposite =>
        /\ Range(exprResult.dependencies) = SubDependencies(exprResult.expression)
        /\ \A d \in Range(exprResult.dependencies) : d[1] \in {"resources", "refs"}

\* the property n of a resource is one ${...} token over several resources
ReadsSeveral(properties) ==
    /\ DOMAIN properties = {"n"}
    /\ Len(properties["n"].segs) = 1
    /\ IsTok(properties["n"].segs[1])
    /\ Cardinality(ScalarReferences(properties["n"])) > 1

\* C34: one ${...} expression that references several resources yields one
\* dependency for each of them, so Graph() orders the resource after every
\* resource the expression references
C34_EveryReferencedResourceIsADependency ==
    gResult # NoGraph =>
        \A n \in DOMAIN gBundle :
            ReadsSeveral(gBundle[n]) =>
                /\ DependenciesOf(gBundle, n)
                       = {vertexNameFn(x) : x \in References(gBundle[n])}
                /\ (~gResult.err /\ WellFormed(gBundle) /\ Acyclic(gBundle)) =>
                       \A x \in References(gBundle[n]) : Before(gResult.val, x, n)

-----------------------------------------------------------------------------
(* Claims about the classification of a scalar by Parse (SpecExpr)         *)

\* the whole scalar is one ${...} token
WholeToken ==
    /\ IsString(exprScalar)
    /\ Len(exprScalar.segs) = 1
    /\ IsTok(exprScalar.segs[1])

\* one ${...} token together with literal text before or after it
OneTokenWithText ==
    /\ IsString(exprScalar)
    /\ Len(SearchExpressions(exprScalar)) = 1
    /\ Len(exprScalar.segs) > 1

\* the token of the scalar evaluates in the scope to a string
TokenIsText ==
    \A i \in DOMAIN exprScalar.segs :
        IsTok(exprScalar.segs[i]) =>
            IsStr(ExprEvaluate(exprScalar.segs[i].tok, exprScope))

\* C35: Parse classifies a string scalar as a single expression only when the
\* whole scalar is exactly one ${...} token; one token with literal text
\* before or after it is a composite expression, and its evaluation keeps
\* that text around the substituted value
C35_SingleOnlyForAWholeToken ==
    Parsed =>
        /\ IsSingle <=> WholeToken
        /\ OneTokenWithText =>
               /\ IsComposite
               /\ TokenIsText => exprResult.value = Substituted(exprScalar, exprScope)

-----------------------------------------------------------------------------
(* SpecTree: the property tree of one resource read by readProperty and    *)
(* evaluated by Resource.Evaluate on a scope                               *)

\* a property value as json.Unmarshal leaves it: a scalar, a []any or a
\* map[string]any
Arr(elements) == [arr |-> elements]
Obj(fields)   == [obj |-> fields]
IsArr(value)  == "arr" \in DOMAIN value
IsObj(value)  == "obj" \in DOMAIN value

\* an evaluated []any
ListV(values) == [list |-> values]

\* readProperty with its three cases; readArrayProperty and
\* readObjectProperty read every element and collect the dependencies (the
\* objects of the model have one key, so the map is ranged over in one order)
RECURSIVE readPropertyTree(_, _)
readArrayProperty(name, value) ==
    LET values == [i \in DOMAIN value |-> readPropertyTree(name \o <<i>>, value[i])]
    IN  [name |-> name, kind |-> "array", properties |-> values,
         dependencies |-> Flatten([i \in DOMAIN values |-> values[i].dependencies])]
readObjectProperty(name, value) ==
    LET properties == [k \in DOMAIN value |-> readPropertyTree(name \o <<k>>, value[k])]
        keys == CHOOSE order \in Perms(DOMAIN value) : TRUE
    IN  [name |-> name, kind |-> "object", properties |-> properties,
         dependencies |-> Flatten([i \in DOMAIN keys |-> properties[keys[i]].dependencies])]
readPropertyTree(name, value) ==
    IF IsObj(value) THEN readObjectProperty(name, value.obj)
    ELSE IF IsArr(value) THEN readArrayProperty(name, value.arr)
    ELSE [kind |-> "expression"] @@ readProperty(name, value)

\* ArrayResourceProperty.Evaluate: make([]any, len(p.properties)) followed
\* by append, so the values come after len(p.properties) nil entries
RECURSIVE PropertyEvaluate(_, _)
ArrayEvaluate(p, args) ==
    LET values == [i \in DOMAIN p.properties |-> PropertyEvaluate(p.properties[i], args)]
    IN  IF \E i \in DOMAIN values : IsErr(values[i]) THEN ErrV
        ELSE ListV([i \in DOMAIN p.properties |-> NilV] \o values)

\* ObjectResourceProperty.Evaluate
ObjectEvaluate(p, args) ==
    LET values == [k \in DOMAIN p.properties |-> PropertyEvaluate(p.properties[k], args)]
    IN  IF \E k \in DOMAIN values : IsErr(values[k]) THEN ErrV
        ELSE MapV(values)

\* ResourceProperty.Evaluate of the three kinds of property
PropertyEvaluate(p, args) ==
    IF p.kind = "array" THEN ArrayEvaluate(p, args)
    ELSE IF p.kind = "object" THEN ObjectEvaluate(p, args)
    ELSE Evaluate(p.expression, args)

\* the longest array of the property trees
MaxElements == 2

\* the scalars of the trees: "v", 8080, "${'hello'}" and
\* "${resources.a.status.outputs.id}"
TreeScalars ==
    {LiteralScalar, Typed(NumV(8080)), Scalar(<<Tok(<<Const("hello")>>)>>), OutputOf("a")}

TreeArrays == {Arr(elements) : elements \in UNION {[1..n -> TreeScalars] : n \in 0..MaxElements}}

\* spec.properties of one resource: the property n is a scalar, an array of
\* scalars, an array of arrays or an object that holds an array
TreeProperties ==
    {OneProperty(value) :
        value \in TreeScalars \cup TreeArrays
                    \cup {Arr(<<Arr(<<scalar>>)>>) : scalar \in TreeScalars}
                    \cup {Obj(OneProperty(Arr(<<scalar>>))) : scalar \in TreeScalars}}

InitTree ==
    /\ exprScalar \in TreeProperties
    /\ exprScope \in ExprScopes
    /\ exprResult = NoExpression
    /\ gBundle = <<>> /\ gResult = <<>>
    /\ bundle = <<>> /\ store = <<>> /\ deployment = <<>> /\ backend = <<>>
    /\ result = <<>>
    /\ group = <<>> /\ refStore = <<>> /\ namespaces = {} /\ deployments = {}
    /\ fanout = <<>>
    /\ tofuResources = <<>> /\ tofuObjects = {} /\ tofuResult = <<>>
    /\ apiResource = <<>> /\ planner = <<>> /\ materializer = <<>>
    /\ lastWrite = <<>> /\ queued = FALSE

\* newResourceProperties, then Resource.Evaluate: every property of the
\* resource evaluated; an error of one is the error of all
EvaluateTree ==
    /\ exprResult = NoExpression
    /\ LET read == [k \in DOMAIN exprScalar |-> readPropertyTree(<<k>>, exprScalar[k])]
           expanded == [k \in DOMAIN read |-> PropertyEvaluate(read[k], exprScope)]
       IN  exprResult' =
               [properties |-> read,
                value |-> IF \E k \in DOMAIN expanded : IsErr(expanded[k])
                          THEN ErrV ELSE MapV(expanded)]
    /\ UNCHANGED <<exprScalar, exprScope>>

NextTree ==
    EvaluateTree /\ UNCHANGED <<graphVars, plannerVars, fanoutVars, tofuVars, conflictVars, queued>>

SpecTree == InitTree /\ [][NextTree]_vars

-----------------------------------------------------------------------------
(* Claims about the evaluation of a property tree (SpecTree)               *)

\* the evaluation of a property value that keeps the shape of the value: an
\* array of n elements gives the n evaluations of its elements, in order
RECURSIVE Shaped(_, _)
Shaped(value, variables) ==
    IF IsObj(value)
    THEN LET values == [k \in DOMAIN value.obj |-> Shaped(value.obj[k], variables)]
         IN  IF \E k \in DOMAIN values : IsErr(values[k]) THEN ErrV ELSE MapV(values)
    ELSE IF IsArr(value)
    THEN LET values == [i \in DOMAIN value.arr |-> Shaped(value.arr[i], variables)]
         IN  IF \E i \in DOMAIN values : IsErr(values[i]) THEN ErrV ELSE ListV(values)
    ELSE Evaluate(Parse(value), variables)

\* a property value without any ${...} token
RECURSIVE IsLiteralTree(_)
IsLiteralTree(value) ==
    IF IsObj(value) THEN \A k \in DOMAIN value.obj : IsLiteralTree(value.obj[k])
    ELSE IF IsArr(value) THEN \A i \in DOMAIN value.arr : IsLiteralTree(value.arr[i])
    ELSE IsLiteral(value)

\* the value a literal property value stands for: itself
RECURSIVE LiteralTree(_)
LiteralTree(value) ==
    IF IsObj(value) THEN MapV([k \in DOMAIN value.obj |-> LiteralTree(value.obj[k])])
    ELSE IF IsArr(value) THEN ListV([i \in DOMAIN value.arr |-> LiteralTree(value.arr[i])])
    ELSE LiteralValue(value)

Evaluated == exprResult # NoExpression /\ "properties" \in DOMAIN exprResult

\* C36: the evaluation of a property tree keeps its shape: an array of n
\* elements evaluates to an array of exactly n values, the i-th being the
\* evaluation of the i-th element, and a resource without expressions gets
\* expanded properties equal to its literal property tree
C36_EvaluationKeepsTheShape ==
    Evaluated =>
        /\ exprResult.value = Shaped(Obj(exprScalar), exprScope)
        /\ (\A k \in DOMAIN exprScalar : IsLiteralTree(exprScalar[k]))
               => exprResult.value = LiteralTree(Obj(exprScalar))

-----------------------------------------------------------------------------
(* Claims about the scope of the Planner's evaluations (Spec)              *)

\* the args the walk of step 4 gives to resource.Evaluate, one per vertex it
\* comes to: the walk goes on to the next vertex, with the Resource added by
\* WithResource, only past a Resource that exists and is not in progress
RECURSIVE WalkArgs(_, _, _, _)
WalkArgs(dag, rg, st, args) ==
    IF dag = <<>> THEN <<>>
    ELSE
      LET resource == ResourceGroupGet(rg, Head(dag))
          name == resource.Name
          expandedProperties == ResourceEvaluate(resource, args)
      IN  IF IsErr(expandedProperties) \/ st[name] = Absent
          THEN <<args>>
          ELSE LET resourceToDeploy == [st[name] EXCEPT !.properties = expandedProperties]
               IN  IF MustWait(resourceToDeploy)
                   THEN <<args>>
                   ELSE <<args>> \o WalkArgs(Tail(dag), rg,
                                       [st EXCEPT ![name] = resourceToDeploy],
                                       WithResource(args, name, resourceToDeploy))

\* the scopes of a pass that starts in the current state, in the order of
\* the evaluations, for every iteration order of the registered resources
PassScopes ==
    LET registered == RegisterCandidates(NewResourceGroup, bundle)
    IN  IF registered.err THEN {}
        ELSE {WalkArgs(Graph(registered.val, iter).val, registered.val, store,
                       NewResourcePropertiesArgs(EmptyMap, RefObjects)) :
                 iter \in {iter \in Perms(DOMAIN registered.val.all) :
                              ~Graph(registered.val, iter).err}}

\* the step is a pass of the Planner that came to the walk
PlannerWalks ==
    /\ result'.by = "planner"
    /\ result'.end \notin {"registerError", "graphError"}

IsMapping(scope, root) == root \in DOMAIN scope /\ IsMap(scope[root])

-----------------------------------------------------------------------------
(* SpecSelect: SelectByName applied to the provisioner of a ResourceRef    *)
(* and the factory it returns applied to that provisioner                  *)

PulumiProvisionerName     == "pulumi"
OpenTofuProvisionerName   == "opentofu"
CrossplaneProvisionerName == "crossplane"

\* SelectByName: the switch over the provisioner name
SelectByName(name) ==
    CASE name = PulumiProvisionerName   -> [err |-> FALSE, factory |-> "newPulumiProvisioner"]
      [] name = OpenTofuProvisionerName -> [err |-> FALSE, factory |-> "newOpenTofuProvisioner"]
      [] OTHER                          -> [err |-> TRUE, factory |-> "nil"]

\* newPulumiProvisioner, newOpenTofuProvisioner, newCrossplaneProvisioner:
\* json.Unmarshal of provisioner.Properties.Raw into the struct of the
\* backend; properties that are no JSON object are an error, and properties
\* left out are a nil pointer, which the factory dereferences
ProvisionerOf(factory, provisioner) ==
    IF provisioner.properties = "absent" THEN [err |-> TRUE, provisioner |-> "panic"]
    ELSE IF provisioner.properties = "string" THEN [err |-> TRUE, provisioner |-> "nil"]
    ELSE [err |-> FALSE,
          provisioner |-> CASE factory = "newPulumiProvisioner"   -> "PulumiProvisioner"
                            [] factory = "newOpenTofuProvisioner" -> "OpenTofuProvisioner"
                            [] OTHER                              -> "CrossplaneProvisioner"]

\* spec.provisioner of a ResourceRef: the name is any string, the properties
\* are {git: ...}, {objectRef: ...}, JSON that is no object, or left out
ProvisionerNames ==
    {PulumiProvisionerName, OpenTofuProvisionerName, CrossplaneProvisionerName,
     "terraform", ""}
ProvisionerSpecs ==
    [name : ProvisionerNames, properties : {"git", "objectRef", "string", "absent"}]

NoSelection == [by |-> "none"]

InitSelect ==
    /\ refStore \in [RefNames -> ProvisionerSpecs]
    /\ result = NoSelection
    /\ gBundle = <<>> /\ gResult = <<>>
    /\ bundle = <<>> /\ store = <<>> /\ deployment = <<>> /\ backend = <<>>
    /\ group = <<>> /\ namespaces = {} /\ deployments = {}
    /\ fanout = <<>>
    /\ tofuResources = <<>> /\ tofuObjects = {} /\ tofuResult = <<>>
    /\ exprScalar = <<>> /\ exprScope = <<>> /\ exprResult = <<>>
    /\ apiResource = <<>> /\ planner = <<>> /\ materializer = <<>>
    /\ lastWrite = <<>> /\ queued = FALSE

\* the provisioner of a ResourceRef selected by its name and built
SelectProvisioner(ref) ==
    LET selected == SelectByName(refStore[ref].name)
    IN  /\ result' = [by |-> "select", ref |-> ref, selected |-> selected,
                      built |-> IF selected.err THEN [err |-> TRUE, provisioner |-> "nil"]
                                ELSE ProvisionerOf(selected.factory, refStore[ref])]
        /\ UNCHANGED <<refStore, bundle, store, deployment, backend>>

NextSelect ==
    \E ref \in RefNames :
        /\ SelectProvisioner(ref)
        /\ UNCHANGED <<graphVars, group, namespaces, deployments, fanout, tofuVars,
                       exprVars, conflictVars, queued>>

SpecSelect == InitSelect /\ [][NextSelect]_vars

-----------------------------------------------------------------------------
(* Claims about the selection of a provisioner (SpecSelect)                *)

\* the factory of each backend
FactoryOf(name) ==
    CASE name = "pulumi"     -> "newPulumiProvisioner"
      [] name = "opentofu"   -> "newOpenTofuProvisioner"
      [] name = "crossplane" -> "newCrossplaneProvisioner"

\* C38: selection by the provisioner name of a ResourceRef returns the
\* factory of the backend for each of the names pulumi, opentofu and
\* crossplane, and an error and no provisioner for any other name
C38_SelectionCoversTheFixedSet ==
    result.by = "select" =>
        LET name == refStore[result.ref].name
        IN  IF name \in {"pulumi", "opentofu", "crossplane"}
            THEN /\ ~result.selected.err
                 /\ result.selected.factory = FactoryOf(name)
            ELSE /\ result.selected.err
                 /\ result.built.err

-----------------------------------------------------------------------------
(* Claims about running a provisioner again (SpecTofu)                     *)

\* the last step was Run for the Resource n, and so is this one: Run is
\* called again with nothing else having happened in between
RunAgain(n) ==
    /\ tofuResult.name = n
    /\ tofuResult.state # "updated"
    /\ tofuResult'.name = n
    /\ tofuResult'.state # "updated"

\* C39: Run is idempotent across retries: called again for the same Resource
\* with no external change, it creates no backend object that exists already
\* and returns the same status as before
C39_RunIsIdempotent ==
    [][\A n \in TofuNames :
          RunAgain(n) => /\ tofuObjects' = tofuObjects
                         /\ tofuResult'.state = tofuResult.state]_vars

-----------------------------------------------------------------------------
(* SpecProvision: the Pulumi and the Crossplane provisioner run for the    *)
(* Resources of one namespace, the Planner changing their properties and   *)
(* the backend objects changing state on their own                         *)

ProvisionNames == {"a", "b"}

\* spec.properties of a Resource, before and after a change
Properties1 == MapV([k \in {"n"} |-> StrV(<<"v">>)])
Properties2 == MapV([k \in {"n"} |-> StrV(<<"w">>)])

\* status.atProvider and the Ready condition of a Crossplane object, with
\* its kstatus
CrossplaneStatuses ==
    [computed : {"InProgress", "Failed", "Current"}, ready : BOOLEAN,
     atProvider : {NilV, Outputs1}]
NoCrossplaneStatus == [computed |-> "Current", ready |-> FALSE, atProvider |-> NilV]

\* newSpec of getOrNewStack: the stack name and the config, which is
\* spec.properties of the Resource
newSpec(name, resource) ==
    [stack |-> <<resource.placement, name>>, config |-> resource.properties]

\* getOrNewStack: the Stack named after the Resource is created when Get
\* finds none; a Stack that is found gets the new spec in the object Get
\* returned, and nothing writes that object back
getOrNewStack(name, resource, found) ==
    IF found = Absent
    THEN LET stack == [kind |-> "Stack", spec |-> newSpec(name, resource),
                       status |-> [state |-> "", outputs |-> NilV]]
         IN  [stack |-> stack, stored |-> stack, created |-> TRUE]
    ELSE [stack |-> [found EXCEPT !.spec = newSpec(name, resource)],
          stored |-> found,
          created |-> FALSE]

\* PulumiProvisioner.Run from the Stack on: status.lastUpdate.state read;
\* stackStatus["outputs"].(map[string]any) panics when a Stack with a last
\* update has no outputs
PulumiStatusOf(stack) ==
    IF stack.status.state = "" THEN [State |-> "Running", Outputs |-> MapV(EmptyMap)]
    ELSE IF ~IsMap(stack.status.outputs) THEN [State |-> "panic", Outputs |-> NilV]
    ELSE [State |-> IF stack.status.state = "succeeded" THEN "Success" ELSE "Failed",
          Outputs |-> stack.status.outputs]

\* getOrNewObj: the object named after the Resource is created, with
\* spec.properties as its spec, when Get finds none; an object that is found
\* is returned as it is
getOrNewObj(name, resource, found) ==
    IF found = Absent
    THEN LET obj == [kind |-> "Object", spec |-> resource.properties,
                     status |-> NoCrossplaneStatus]
         IN  [stack |-> obj, stored |-> obj, created |-> TRUE]
    ELSE [stack |-> found, stored |-> found, created |-> FALSE]

\* CrossplaneProvisioner.Run from the object on
CrossplaneStatusOf(obj) ==
    LET outputs == IF obj.status.atProvider = NilV THEN MapV(EmptyMap)
                   ELSE obj.status.atProvider
    IN  CASE obj.status.computed = "InProgress" ->
               [State |-> "Running", Outputs |-> MapV(EmptyMap)]
          [] obj.status.computed = "Failed" ->
               [State |-> "Failed", Outputs |-> MapV(EmptyMap)]
          [] obj.status.ready -> [State |-> "Success", Outputs |-> outputs]
          [] OTHER -> [State |-> "Running", Outputs |-> outputs]

\* Run(resource) of the provisioner of the Resource.  createFails: Create of
\* the backend object returns an error
ProvisionerRun(n) ==
    \E createFails \in BOOLEAN :
      LET resource == store[n]
          got == IF resource.provisioner = PulumiProvisionerName
                 THEN getOrNewStack(n, resource, backend[n])
                 ELSE getOrNewObj(n, resource, backend[n])
          status == IF resource.provisioner = PulumiProvisionerName
                    THEN PulumiStatusOf(got.stack)
                    ELSE CrossplaneStatusOf(got.stack)
      IN  IF got.created /\ createFails
          THEN /\ result' = [by |-> "run", name |-> n, existed |-> FALSE,
                             status |-> [State |-> "error", Outputs |-> NilV]]
               /\ UNCHANGED <<bundle, store, deployment, backend>>
          ELSE /\ backend' = [backend EXCEPT ![n] = got.stored]
               /\ result' = [by |-> "run", name |-> n, existed |-> ~got.created,
                             status |-> status]
               /\ UNCHANGED <<bundle, store, deployment>>

\* the Planner writes other spec.properties to the Resource
PropertiesChanged(n) ==
    /\ \E properties \in {Properties1, Properties2} \ {store[n].properties} :
          store' = [store EXCEPT ![n].properties = properties]
    /\ result' = [by |-> "planner", name |-> n]
    /\ UNCHANGED <<bundle, deployment, backend>>

\* the controller of the backend writes the status of a backend object
BackendStatusWritten(n) ==
    /\ backend[n] # Absent
    /\ \E status \in IF backend[n].kind = "Stack"
                     THEN StackStates ELSE CrossplaneStatuses :
          /\ status # backend[n].status
          /\ backend' = [backend EXCEPT ![n].status = status]
    /\ result' = [by |-> "backend", name |-> n]
    /\ UNCHANGED <<bundle, store, deployment>>

InitProvision ==
    /\ store \in [ProvisionNames ->
                     [provisioner : {PulumiProvisionerName, CrossplaneProvisionerName},
                      placement : {"account-1"},
                      properties : {Properties1}]]
    /\ backend = [n \in ProvisionNames |-> Absent]
    /\ result = [by |-> "none"]
    /\ bundle = <<>> /\ deployment = <<>>
    /\ gBundle = <<>> /\ gResult = <<>>
    /\ group = <<>> /\ refStore = <<>> /\ namespaces = {} /\ deployments = {}
    /\ fanout = <<>>
    /\ tofuResources = <<>> /\ tofuObjects = {} /\ tofuResult = <<>>
    /\ exprScalar = <<>> /\ exprScope = <<>> /\ exprResult = <<>>
    /\ apiResource = <<>> /\ planner = <<>> /\ materializer = <<>>
    /\ lastWrite = <<>> /\ queued = FALSE

NextProvision ==
    \/ \E n \in ProvisionNames : ProvisionerRun(n) /\ UNCHANGED <<graphVars, fanoutVars, tofuVars, exprVars, conflictVars, queued>>
    \/ \E n \in ProvisionNames : PropertiesChanged(n) /\ UNCHANGED <<graphVars, fanoutVars, tofuVars, exprVars, conflictVars, queued>>
    \/ \E n \in ProvisionNames : BackendStatusWritten(n) /\ UNCHANGED <<graphVars, fanoutVars, tofuVars, exprVars, conflictVars, queued>>

SpecProvision == InitProvision /\ [][NextProvision]_vars

-----------------------------------------------------------------------------
(* Claims about the backend object of a Resource (SpecProvision)           *)

\* the spec of the backend object that goes with the Resource as it is now
BackendSpecOf(n) ==
    IF store[n].provisioner = PulumiProvisionerName
    THEN newSpec(n, store[n])
    ELSE store[n].properties

\* the last step was Run for a Resource whose backend object existed
RanOnExisting ==
    /\ result.by = "run"
    /\ result.existed
    /\ result.status.State \notin {"error", "panic"}

\* C40: after Run on a Resource whose backend object exists already, the
\* stored backend object reflects the current spec.properties of the
\* Resource: a change of the properties reaches the stored object on the
\* next Run
C40_BackendReflectsTheProperties ==
    RanOnExisting => backend[result.name].spec = BackendSpecOf(result.name)

=============================================================================
